---- MODULE Spec2Model ----
(***************************************************************************)
(* Model of python_monitor.database.metrics_db.MetricsDatabase: a SQLite   *)
(* table of metric records shared by independent processes.  Every call    *)
(* opens its own connection (sqlite3.connect, default busy timeout,        *)
(* rollback-journal mode, deferred transactions), so the file locks of     *)
(* SQLite (SHARED / RESERVED / PENDING / EXCLUSIVE), the rollback journal  *)
(* and the sqlite_sequence row of the AUTOINCREMENT key are part of the    *)
(* state.  Further sections model analytics.analyzer.MetricsAnalyzer, the  *)
(* functions of lists of values that the reports are computed with, and    *)
(* the metrics file that backend.metrics_writer hands to                   *)
(* backend.api_server.                                                     *)
(***************************************************************************)
EXTENDS Integers, Sequences, FiniteSets, TLC

\* ------------------------------------------------------------------ bounds
\* K of "N writers, K inserts each": calls one writer process makes.
MaxCalls == 2
\* Calls the cleaner process and the reader process make.
MaxCleanups == 2
MaxReads == 2
\* The clock: days 1..MaxDay of one month, seconds 0..MaxSec of one minute.
MaxDay == 2
MaxSec == 1
\* Retries of the busy handler before sqlite3 gives up (the 5.0 s default
\* timeout of sqlite3.connect, in units of one retry).
BusyRetries == 1
\* Rows of a store given to the queries, and the largest LIMIT asked for.
MaxRows == 2
MaxLimit == 2
\* Processes that die in the middle of a call.
MaxCrashes == 1

\* ------------------------------------------------------------------ time
\* An instant of the UTC wall clock is <<day, second, microsecond>>; the
\* year, month, hour and minute are the same for every instant of the model.
MicroVals == {0, 500000}
Instants == (1..MaxDay) \X (0..MaxSec) \X MicroVals

\* Chronological order of instants.
Before(a, b) ==
    \/ a[1] < b[1]
    \/ a[1] = b[1] /\ a[2] < b[2]
    \/ a[1] = b[1] /\ a[2] = b[2] /\ a[3] < b[3]

AtOrBefore(a, b) == a = b \/ Before(a, b)

\* Text is a sequence of ASCII codes.
Digit(d) == 48 + d

Pad2(n) == << Digit((n \div 10) % 10), Digit(n % 10) >>

Pad6(n) ==
    << Digit((n \div 100000) % 10), Digit((n \div 10000) % 10),
       Digit((n \div 1000) % 10), Digit((n \div 100) % 10),
       Digit((n \div 10) % 10), Digit(n % 10) >>

\* datetime.isoformat(): "..DDT..SS" and ".ffffff" only when the microsecond
\* is not 0 (the fields that are equal for all instants are left out).
IsoFormat(t) ==
    Pad2(t[1]) \o << 84 >> \o Pad2(t[2])
        \o (IF t[3] = 0 THEN << >> ELSE << 46 >> \o Pad6(t[3]))

\* SQLite's comparison of two TEXT values (BINARY collation, memcmp then
\* length).
RECURSIVE TextLess(_, _)
TextLess(s, t) ==
    IF t = << >> THEN FALSE
    ELSE IF s = << >> THEN TRUE
    ELSE IF Head(s) # Head(t) THEN Head(s) < Head(t)
    ELSE TextLess(Tail(s), Tail(t))

TextLeq(s, t) == s = t \/ TextLess(s, t)

\* timedelta(days = n) before t.
MinusDays(t, n) == << t[1] - n, t[2], t[3] >>


\* ------------------------------------------------------------------ payload
\* The Python values of a payload: an int, a list or a tuple of ints, or an
\* object of a class json knows nothing of.
PyInt(n) == [kind |-> "int", items |-> << n >>]
PyList(s) == [kind |-> "list", items |-> s]
PyTuple(s) == [kind |-> "tuple", items |-> s]
PyObject == [kind |-> "object", items |-> << >>]

\* json.dumps of a value: an int is a JSON number; a list and a tuple are
\* both a JSON array. json.loads: a number is an int, an array a list.
JsonValue(v) ==
    IF v.kind = "int" THEN [kind |-> "number", items |-> v.items]
    ELSE [kind |-> "array", items |-> v.items]

PyValue(j) ==
    IF j.kind = "number" THEN PyInt(j.items[1]) ELSE PyList(j.items)

\* json.dumps of a mapping: its items in insertion order; json.loads: the
\* mapping again (a repeated key keeps its last value).
KeyOrder == << "usage_percent", "count" >>

JsonDumps(p) ==
    LET idx == SelectSeq([i \in 1..Len(KeyOrder) |-> i],
                         LAMBDA i : KeyOrder[i] \in DOMAIN p)
    IN  [j \in 1..Len(idx) |->
            << KeyOrder[idx[j]], JsonValue(p[KeyOrder[idx[j]]]) >>]

JsonLoads(s) ==
    [k \in {s[i][1] : i \in DOMAIN s} |->
        PyValue(s[CHOOSE i \in DOMAIN s :
                    s[i][1] = k /\ \A j \in DOMAIN s : s[j][1] = k => j <= i][2])]

\* ------------------------------------------------------------------ inputs
Hostnames == {"h1"}
MetricTypes == {"cpu", "mem"}
\* Each collector process reports one metric type.
TypeOf(w) == IF w = "w1" THEN "cpu" ELSE "mem"
Payloads == {[usage_percent |-> PyInt(10)]}
Statuses == {"OK"}
Sources == {"python"}
\* data_source: str = "python" (line 77) for a caller that passes none.
Omitted == "<omitted>"
DefaultSource == "python"

\* ------------------------------------------------------------------ state
Writers == {"w1", "w2"}
Cleaner == "cl"
Reader == "rd"
Procs == Writers \cup {Cleaner, Reader}
NoProc == "none"
NoJournal == [present |-> FALSE]

VARIABLES
    now,      \* the UTC wall clock (datetime.utcnow())
    disk,     \* the rows of table metrics in the database file
    seq,      \* sqlite_sequence.seq of table metrics (AUTOINCREMENT)
    journal,  \* the rollback journal: the file's content before a commit
    torn,     \* ids of rows the running commit has written only in part
    writer,   \* the connection holding RESERVED or more, or NoProc
    wlevel,   \* its lock: "NONE", "RESERVED", "PENDING", "EXCLUSIVE"
    readers,  \* the connections holding SHARED
    pc,       \* each process's position in its call
    loc,      \* each process's local variables
    calls,    \* calls each process has made
    returned, \* history: the calls of insert_metrics that returned an id
    cleaned,  \* history: the sum of the counts cleanup_old_records returned
    crashes,  \* history: the number of processes that died in a call
    columns,  \* the columns of table metrics
    inodes,   \* the files of the shared directory, by inode number
    shared,   \* the shared directory: the inode each name stands for
    loop,     \* write_metrics_loop: its position and local variables
    api       \* get_metrics of the API server: the same

backend == << inodes, shared, loop, api >>

vars == << now, disk, seq, journal, torn, writer, wlevel, readers, pc, loc,
           calls, returned, cleaned, crashes, columns, backend >>

\* CREATE TABLE metrics (lines 27-38).
TableColumns ==
    {"id", "timestamp", "hostname", "metric_type", "metric_data", "status",
     "data_source", "created_at"}

NoLoc == [waited |-> 0]

\* The shared directory before the metrics writer has run: no metrics.json
\* and no metrics.json.tmp; the writer is about to enter its loop and the
\* API server has no request.
NoFile == 0
BackendInit ==
    /\ inodes = << >>
    /\ shared = [metrics |-> NoFile, tmp |-> NoFile]
    /\ loop = [pc |-> "collect", metrics |-> 0, f |-> NoFile,
               iterations |-> 0, before |-> << >>]
    /\ api = [pc |-> "idle", f |-> NoFile, requests |-> 0,
              response |-> [status |-> 0]]

Init ==
    /\ now = << 1, 0, 0 >>
    /\ disk = {}
    /\ seq = 0
    /\ journal = NoJournal
    /\ torn = {}
    /\ writer = NoProc
    /\ wlevel = "NONE"
    /\ readers = {}
    /\ pc = [p \in Procs |-> "idle"]
    /\ loc = [p \in Procs |-> NoLoc]
    /\ calls = [p \in Procs |-> 0]
    /\ returned = {}
    /\ cleaned = 0
    /\ crashes = 0
    /\ columns = TableColumns
    /\ BackendInit

\* Midnights: the instants the clock of the concurrent processes is read at.
Midnights == {t \in Instants : t[2] = 0 /\ t[3] = 0}

\* The clock moves on to a later instant.
Tick(t) ==
    /\ Before(now, t)
    /\ now' = t
    /\ UNCHANGED << disk, seq, journal, torn, writer, wlevel, readers, pc,
                    loc, calls, returned, cleaned, crashes, columns, backend >>

\* ------------------------------------------------------------------ locks
\* A journal left by a connection that no longer holds the lock is hot: the
\* next connection to lock the file plays it back before it reads.
Hot == journal.present /\ wlevel = "NONE"
RecoveredDisk == IF Hot THEN journal.rows ELSE disk
RecoveredSeq == IF Hot THEN journal.seq ELSE seq

\* SHARED is granted unless a writer is PENDING or EXCLUSIVE.
CanShare == wlevel \in {"NONE", "RESERVED"}
\* RESERVED is granted to one connection at a time.
CanReserve == wlevel = "NONE"
\* EXCLUSIVE is granted when no other connection holds SHARED.
CanExclude(p) == readers \subseteq {p}

\* A connection without a busy timeout: it waits as long as it takes.
BusyWait_Forever(p) ==
    /\ loc[p].waited < BusyRetries
    /\ UNCHANGED << pc, loc >>

\* The busy handler: retry BusyRetries times, then "database is locked".
BusyWait(p) ==
    /\ loc[p].waited < BusyRetries
    /\ loc' = [loc EXCEPT ![p].waited = @ + 1]
    /\ UNCHANGED pc

BusyFail(p) ==
    /\ loc[p].waited >= BusyRetries
    /\ loc' = [loc EXCEPT ![p] = [waited |-> 0, error |-> "locked"]]
    /\ pc' = [pc EXCEPT ![p] = "raised"]


\* Rolling back and closing the connection of p gives up its locks; what it
\* had written was in its own page cache only.
Unlock(p) ==
    /\ readers' = readers \ {p}
    /\ writer' = IF writer = p THEN NoProc ELSE writer
    /\ wlevel' = IF writer = p THEN "NONE" ELSE wlevel

\* ------------------------------------------------------------------ insert
\* The id of the next row of an AUTOINCREMENT key: one more than the largest
\* id the table has ever held.
RECURSIVE MaxOf(_)
MaxOf(S) ==
    IF S = {} THEN 0
    ELSE LET x == CHOOSE x \in S : TRUE
             m == MaxOf(S \ {x})
         IN  IF x > m THEN x ELSE m

\* A key without AUTOINCREMENT: one more than the largest id in the table.
NextRowid_NoAutoincrement(rows, sq) == MaxOf({r.id : r \in rows}) + 1

NextRowid(rows, sq) == MaxOf({r.id : r \in rows} \cup {sq}) + 1

\* insert_metrics, lines 75-104 up to the call of execute, called with one
\* of the argument lists Args: the connection is opened and the parameters
\* are evaluated, the timestamp among them. No argument is validated.
InsertCallOf(w, Args) ==
    /\ pc[w] = "idle"
    /\ calls[w] < MaxCalls
    /\ \E a \in Args :
            loc' = [loc EXCEPT ![w] =
                      [waited |-> 0,
                       given |-> a,
                       args |-> [timestamp |-> IsoFormat(now),
                                 hostname |-> a.hostname,
                                 metric_type |-> a.metric_type,
                                 metric_data |-> JsonDumps(a.metric_data),
                                 status |-> a.status,
                                 data_source |->
                                    IF a.data_source = Omitted
                                    THEN DefaultSource
                                    ELSE a.data_source]]]
    /\ pc' = [pc EXCEPT ![w] = "ins_exec"]
    /\ calls' = [calls EXCEPT ![w] = @ + 1]
    /\ UNCHANGED << now, disk, seq, journal, torn, writer, wlevel, readers,
                    returned, cleaned, crashes, columns, backend >>

\* The calls of the collector process w.
InsertCall(w) ==
    InsertCallOf(w, [hostname : Hostnames, metric_type : {TypeOf(w)},
                     metric_data : Payloads, status : Statuses,
                     data_source : Sources])

\* A payload json.dumps has no encoding for: one of its values is an object
\* (a set, a lock, a datetime).
BadPayloads == {[usage_percent |-> PyInt(10), count |-> PyObject]}
Serializable(p) == \A k \in DOMAIN p : p[k].kind # "object"

\* insert_metrics, lines 91-101 with a payload json.dumps rejects: the
\* connection is open, TypeError leaves the call before execute runs.
InsertCallFail(w) ==
    /\ pc[w] = "idle"
    /\ calls[w] < MaxCalls
    /\ \E md \in BadPayloads :
         /\ ~Serializable(md)
         /\ loc' = [loc EXCEPT ![w] = [waited |-> 0, error |-> "TypeError"]]
    /\ pc' = [pc EXCEPT ![w] = "raised"]
    /\ calls' = [calls EXCEPT ![w] = @ + 1]
    /\ UNCHANGED << now, disk, seq, journal, torn, writer, wlevel, readers,
                    returned, cleaned, crashes, columns, backend >>

\* The row the INSERT statement adds.
NewRow(id, a) ==
    [id |-> id, timestamp |-> a.timestamp, hostname |-> a.hostname,
     metric_type |-> a.metric_type, metric_data |-> a.metric_data,
     status |-> a.status, data_source |-> a.data_source]

\* cursor.execute(INSERT ...) and cursor.lastrowid: the implicit BEGIN, then
\* the statement takes SHARED and RESERVED (playing back a hot journal) and
\* writes the row into the connection's page cache.
InsertExec(w) ==
    /\ pc[w] = "ins_exec"
    /\ CanReserve
    /\ LET id == NextRowid(RecoveredDisk, RecoveredSeq)
       IN  loc' = [loc EXCEPT ![w] =
                     [waited |-> 0, given |-> loc[w].given,
                      row |-> NewRow(id, loc[w].args), row_id |-> id]]
    /\ disk' = RecoveredDisk
    /\ seq' = RecoveredSeq
    /\ journal' = NoJournal
    /\ torn' = {}
    /\ writer' = w
    /\ wlevel' = "RESERVED"
    /\ readers' = readers \cup {w}
    /\ pc' = [pc EXCEPT ![w] = "ins_commit"]
    /\ UNCHANGED << now, calls, returned, cleaned, crashes, columns, backend >>

\* ... or it finds the file locked by another writer and waits,
InsertExecWait(w) ==
    /\ pc[w] = "ins_exec"
    /\ ~CanReserve
    /\ BusyWait(w)
    /\ UNCHANGED << now, disk, seq, journal, torn, writer, wlevel, readers,
                    calls, returned, cleaned, crashes, columns, backend >>

\* ... until sqlite3.OperationalError("database is locked") leaves the call.
InsertExecFail(w) ==
    /\ pc[w] = "ins_exec"
    /\ ~CanReserve
    /\ BusyFail(w)
    /\ UNCHANGED << now, disk, seq, journal, torn, writer, wlevel, readers,
                    calls, returned, cleaned, crashes, columns, backend >>

\* The commit left out: the locks are dropped and nothing reaches the file.
InsertCommit_NoCommit(w) ==
    /\ pc[w] = "ins_commit"
    /\ Unlock(w)
    /\ pc' = [pc EXCEPT ![w] = "ins_done"]
    /\ UNCHANGED << now, disk, seq, journal, torn, loc, calls, returned,
                    cleaned, crashes, columns, backend >>

\* conn.commit(), first half: EXCLUSIVE is taken, the journal holds the old
\* content and the new row is being written to the file.
InsertCommit(w) ==
    /\ pc[w] = "ins_commit"
    /\ CanExclude(w)
    /\ wlevel' = "EXCLUSIVE"
    /\ journal' = [present |-> TRUE, rows |-> disk, seq |-> seq]
    /\ disk' = disk \cup {loc[w].row}
    /\ seq' = loc[w].row.id
    /\ torn' = {loc[w].row.id}
    /\ loc' = [loc EXCEPT ![w].waited = 0]
    /\ pc' = [pc EXCEPT ![w] = "ins_sync"]
    /\ UNCHANGED << now, writer, readers, calls, returned, cleaned, crashes,
                    columns, backend >>

\* ... or readers still hold SHARED: the writer holds PENDING and waits,
InsertCommitWait(w) ==
    /\ pc[w] = "ins_commit"
    /\ ~CanExclude(w)
    /\ BusyWait(w)
    /\ wlevel' = "PENDING"
    /\ UNCHANGED << now, disk, seq, journal, torn, writer, readers, calls,
                    returned, cleaned, crashes, columns, backend >>

\* The error of commit caught and dropped: the call goes on to return.
InsertCommitFail_Swallowed(w) ==
    /\ pc[w] = "ins_commit"
    /\ ~CanExclude(w)
    /\ loc[w].waited >= BusyRetries
    /\ Unlock(w)
    /\ pc' = [pc EXCEPT ![w] = "ins_done"]
    /\ UNCHANGED << now, disk, seq, journal, torn, loc, calls, returned,
                    cleaned, crashes, columns, backend >>

\* ... until commit raises; the connection is dropped and rolls back.
InsertCommitFail(w) ==
    /\ pc[w] = "ins_commit"
    /\ ~CanExclude(w)
    /\ BusyFail(w)
    /\ Unlock(w)
    /\ UNCHANGED << now, disk, seq, journal, torn, calls, returned, cleaned,
                    crashes, columns, backend >>

\* conn.commit(), second half (line 107): the file is complete, the journal
\* is deleted (the commit point) and the locks are dropped.
InsertSync(w) ==
    /\ pc[w] = "ins_sync"
    /\ journal' = NoJournal
    /\ torn' = {}
    /\ Unlock(w)
    /\ pc' = [pc EXCEPT ![w] = "ins_done"]
    /\ UNCHANGED << now, disk, seq, loc, calls, returned, cleaned, crashes,
                    columns, backend >>

\* cursor.rowcount returned in place of cursor.lastrowid.
InsertReturn_Rowcount(w) ==
    /\ pc[w] = "ins_done"
    /\ returned' = returned \cup
                     {[by |-> w, call |-> calls[w], id |-> 1,
                       given |-> loc[w].given]}
    /\ loc' = [loc EXCEPT ![w] = NoLoc]
    /\ pc' = [pc EXCEPT ![w] = "idle"]
    /\ UNCHANGED << now, disk, seq, journal, torn, writer, wlevel, readers,
                    calls, cleaned, crashes, columns, backend >>

\* conn.close(); return row_id (lines 108-110).
InsertReturn(w) ==
    /\ pc[w] = "ins_done"
    /\ returned' = returned \cup
                     {[by |-> w, call |-> calls[w], id |-> loc[w].row_id,
                       given |-> loc[w].given]}
    /\ loc' = [loc EXCEPT ![w] = NoLoc]
    /\ pc' = [pc EXCEPT ![w] = "idle"]
    /\ UNCHANGED << now, disk, seq, journal, torn, writer, wlevel, readers,
                    calls, cleaned, crashes, columns, backend >>

\* An exception leaves the call: the caller has no result.
Raise(p) ==
    /\ pc[p] = "raised"
    /\ loc' = [loc EXCEPT ![p] = NoLoc]
    /\ pc' = [pc EXCEPT ![p] = "idle"]
    /\ UNCHANGED << now, disk, seq, journal, torn, writer, wlevel, readers,
                    calls, returned, cleaned, crashes, columns, backend >>

\* ------------------------------------------------------------------ cleanup
RetentionDays == 0..1

\* The comparison of the sweep with <= in place of <.
DeleteWhere_Leq(rows, cutoff) == {r \in rows : TextLeq(r.timestamp, cutoff)}

\* DELETE FROM metrics WHERE timestamp < ?
DeleteWhere(rows, cutoff) == {r \in rows : TextLess(r.timestamp, cutoff)}

\* cleanup_old_records, lines 207-210: the connection is opened and the
\* cutoff is computed from the clock (days before the first of the month
\* are outside the model's calendar).
CleanupCall(c, retention_days) ==
    /\ c = Cleaner
    /\ pc[c] = "idle"
    /\ calls[c] < MaxCleanups
    /\ now[1] - retention_days >= 1
    /\ loc' = [loc EXCEPT ![c] =
                 [waited |-> 0,
                  cutoff |-> IsoFormat(MinusDays(now, retention_days))]]
    /\ pc' = [pc EXCEPT ![c] = "cl_exec"]
    /\ calls' = [calls EXCEPT ![c] = @ + 1]
    /\ UNCHANGED << now, disk, seq, journal, torn, writer, wlevel, readers,
                    returned, cleaned, crashes, columns, backend >>

\* cursor.execute(DELETE ...) and cursor.rowcount, lines 212-217.
CleanupExec(c) ==
    /\ pc[c] = "cl_exec"
    /\ CanReserve
    /\ LET del == DeleteWhere(RecoveredDisk, loc[c].cutoff)
       IN  loc' = [loc EXCEPT ![c] =
                     [waited |-> 0, cutoff |-> loc[c].cutoff, del |-> del,
                      deleted_count |-> Cardinality(del)]]
    /\ disk' = RecoveredDisk
    /\ seq' = RecoveredSeq
    /\ journal' = NoJournal
    /\ torn' = {}
    /\ writer' = c
    /\ wlevel' = "RESERVED"
    /\ readers' = readers \cup {c}
    /\ pc' = [pc EXCEPT ![c] = "cl_commit"]
    /\ UNCHANGED << now, calls, returned, cleaned, crashes, columns, backend >>

CleanupExecWait(c) ==
    /\ pc[c] = "cl_exec"
    /\ ~CanReserve
    /\ BusyWait(c)
    /\ UNCHANGED << now, disk, seq, journal, torn, writer, wlevel, readers,
                    calls, returned, cleaned, crashes, columns, backend >>

CleanupExecFail(c) ==
    /\ pc[c] = "cl_exec"
    /\ ~CanReserve
    /\ BusyFail(c)
    /\ UNCHANGED << now, disk, seq, journal, torn, writer, wlevel, readers,
                    calls, returned, cleaned, crashes, columns, backend >>

\* conn.commit(), first half (line 218): with rows to delete, EXCLUSIVE is
\* taken and the pages of the deleted rows are being rewritten; with none,
\* nothing is written and no further lock is needed.
CleanupCommit(c) ==
    /\ pc[c] = "cl_commit"
    /\ loc[c].del = {} \/ CanExclude(c)
    /\ wlevel' = IF loc[c].del = {} THEN wlevel ELSE "EXCLUSIVE"
    /\ journal' = IF loc[c].del = {} THEN journal
                  ELSE [present |-> TRUE, rows |-> disk, seq |-> seq]
    /\ torn' = {r.id : r \in loc[c].del}
    /\ loc' = [loc EXCEPT ![c].waited = 0]
    /\ pc' = [pc EXCEPT ![c] = "cl_sync"]
    /\ UNCHANGED << now, disk, seq, writer, readers, calls, returned, cleaned,
                    crashes, columns, backend >>

CleanupCommitWait(c) ==
    /\ pc[c] = "cl_commit"
    /\ ~(loc[c].del = {} \/ CanExclude(c))
    /\ BusyWait(c)
    /\ wlevel' = "PENDING"
    /\ UNCHANGED << now, disk, seq, journal, torn, writer, readers, calls,
                    returned, cleaned, crashes, columns, backend >>

CleanupCommitFail(c) ==
    /\ pc[c] = "cl_commit"
    /\ ~(loc[c].del = {} \/ CanExclude(c))
    /\ BusyFail(c)
    /\ Unlock(c)
    /\ UNCHANGED << now, disk, seq, journal, torn, calls, returned, cleaned,
                    crashes, columns, backend >>

\* conn.commit(), second half (line 218).
CleanupSync(c) ==
    /\ pc[c] = "cl_sync"
    /\ disk' = disk \ loc[c].del
    /\ journal' = NoJournal
    /\ torn' = {}
    /\ Unlock(c)
    /\ pc' = [pc EXCEPT ![c] = "cl_done"]
    /\ UNCHANGED << now, seq, loc, calls, returned, cleaned, crashes,
                    columns, backend >>

\* conn.close(); return deleted_count (lines 219-222).
CleanupReturn(c) ==
    /\ pc[c] = "cl_done"
    /\ cleaned' = cleaned + loc[c].deleted_count
    /\ loc' = [loc EXCEPT ![c] = NoLoc]
    /\ pc' = [pc EXCEPT ![c] = "idle"]
    /\ UNCHANGED << now, disk, seq, journal, torn, writer, wlevel, readers,
                    calls, returned, crashes, columns, backend >>

\* ------------------------------------------------------------------ queries
None == "None"
Filters == {None, ""} \cup MetricTypes
\* "if metric_type:" (lines 127, 165): None and "" select the unfiltered query.
Truthy(metric_type) == metric_type \notin {None, ""}

\* The mapping a query returns for one row (lines 146-157, 184-195).
\* A row written before the column data_source was added is shorter than
\* the table is wide; SQLite reads the column's DEFAULT for it.
Absent == "<absent>"
ColumnValue(v) == IF v = Absent THEN DefaultSource ELSE v

\* The row made a mapping with the last two columns taken for each other.
RowToDict_Swapped(r) ==
    [id |-> r.id, timestamp |-> r.timestamp, hostname |-> r.hostname,
     metric_type |-> r.metric_type, metric_data |-> JsonLoads(r.metric_data),
     status |-> ColumnValue(r.data_source), data_source |-> r.status]

RowToDict(r) ==
    [id |-> r.id, timestamp |-> r.timestamp, hostname |-> r.hostname,
     metric_type |-> r.metric_type, metric_data |-> JsonLoads(r.metric_data),
     status |-> r.status, data_source |-> ColumnValue(r.data_source)]

\* The orders in which SQLite may return the rows S under ORDER BY timestamp
\* (rows with equal timestamps come in any order).
Orderings(S) ==
    {s \in [1..Cardinality(S) -> S] :
        \A i, j \in 1..Cardinality(S) : i # j => s[i] # s[j]}

OrderByAsc(S) ==
    {s \in Orderings(S) :
        \A i, j \in 1..Len(s) : i < j => TextLeq(s[i].timestamp, s[j].timestamp)}

OrderByDesc(S) ==
    {s \in Orderings(S) :
        \A i, j \in 1..Len(s) : i < j => TextLeq(s[j].timestamp, s[i].timestamp)}

\* LIMIT n: the first n rows; a negative n is no limit.
Limit(s, n) == IF n < 0 \/ n >= Len(s) THEN s ELSE SubSeq(s, 1, n)

Dicts(s) == [i \in 1..Len(s) |-> RowToDict(s[i])]

\* SELECT ... [WHERE metric_type = ?] ORDER BY timestamp DESC LIMIT ?
LatestRows(rows, metric_type, limit) ==
    LET S == IF Truthy(metric_type)
             THEN {r \in rows : r.metric_type = metric_type}
             ELSE rows
    IN  {Limit(s, limit) : s \in OrderByDesc(S)}

\* The range query with the bounds left out of the range.
RangeRows_Exclusive(rows, start, end, metric_type) ==
    LET B == {r \in rows : TextLess(start, r.timestamp)
                           /\ TextLess(r.timestamp, end)}
        S == IF Truthy(metric_type)
             THEN {r \in B : r.metric_type = metric_type}
             ELSE B
    IN  OrderByAsc(S)

\* The range query with BETWEEN SYMMETRIC: the bounds in either order.
RangeRows_Symmetric(rows, start, end, metric_type) ==
    LET B == {r \in rows : \/ /\ TextLeq(start, r.timestamp)
                              /\ TextLeq(r.timestamp, end)
                           \/ /\ TextLeq(end, r.timestamp)
                              /\ TextLeq(r.timestamp, start)}
        S == IF Truthy(metric_type)
             THEN {r \in B : r.metric_type = metric_type}
             ELSE B
    IN  OrderByAsc(S)

\* SELECT ... WHERE timestamp BETWEEN ? AND ? [AND metric_type = ?]
\* ORDER BY timestamp ASC
RangeRows(rows, start, end, metric_type) ==
    LET B == {r \in rows : TextLeq(start, r.timestamp)
                           /\ TextLeq(r.timestamp, end)}
        S == IF Truthy(metric_type)
             THEN {r \in B : r.metric_type = metric_type}
             ELSE B
    IN  OrderByAsc(S)

\* get_latest_metrics, lines 124-125, and get_metrics_range, lines 162-163
\* with the bounds' isoformat(): the connection is opened.
LatestCall(p, metric_type, limit) ==
    /\ p = Reader
    /\ pc[p] = "idle"
    /\ calls[p] < MaxReads
    /\ loc' = [loc EXCEPT ![p] =
                 [waited |-> 0, op |-> "latest", metric_type |-> metric_type,
                  limit |-> limit]]
    /\ pc' = [pc EXCEPT ![p] = "rd_exec"]
    /\ calls' = [calls EXCEPT ![p] = @ + 1]
    /\ UNCHANGED << now, disk, seq, journal, torn, writer, wlevel, readers,
                    returned, cleaned, crashes, columns, backend >>

RangeCall(p, start_time, end_time, metric_type) ==
    /\ p = Reader
    /\ pc[p] = "idle"
    /\ calls[p] < MaxReads
    /\ loc' = [loc EXCEPT ![p] =
                 [waited |-> 0, op |-> "range", metric_type |-> metric_type,
                  start |-> IsoFormat(start_time),
                  end |-> IsoFormat(end_time)]]
    /\ pc' = [pc EXCEPT ![p] = "rd_exec"]
    /\ calls' = [calls EXCEPT ![p] = @ + 1]
    /\ UNCHANGED << now, disk, seq, journal, torn, writer, wlevel, readers,
                    returned, cleaned, crashes, columns, backend >>

\* A SELECT takes SHARED, playing back a hot journal first.
ReadLock(p) ==
    /\ CanShare
    /\ disk' = RecoveredDisk
    /\ seq' = RecoveredSeq
    /\ journal' = IF Hot THEN NoJournal ELSE journal
    /\ torn' = IF Hot THEN {} ELSE torn
    /\ UNCHANGED << writer, wlevel >>

\* The ids of the rows of res that the file held only in part when read.
Partial(res) == {res[i].id : i \in 1..Len(res)} \cap torn'

\* cursor.execute(SELECT ...) of get_latest_metrics (lines 127-141); the
\* statement holds SHARED until fetchall() has read its last row.
LatestExec(p) ==
    /\ pc[p] = "rd_exec"
    /\ loc[p].op = "latest"
    /\ ReadLock(p)
    /\ readers' = readers \cup {p}
    /\ \E s \in LatestRows(disk', loc[p].metric_type, loc[p].limit) :
         loc' = [loc EXCEPT ![p] =
                   [waited |-> 0, op |-> "latest",
                    metric_type |-> loc[p].metric_type,
                    limit |-> loc[p].limit, res |-> Dicts(s),
                    partial |-> Partial(s)]]
    /\ pc' = [pc EXCEPT ![p] = "rd_fetch"]
    /\ UNCHANGED << now, calls, returned, cleaned, crashes, columns, backend >>

\* cursor.execute(SELECT ...) of get_metrics_range (lines 165-179).
RangeExec(p) ==
    /\ pc[p] = "rd_exec"
    /\ loc[p].op = "range"
    /\ ReadLock(p)
    /\ readers' = readers \cup {p}
    /\ \E s \in RangeRows(disk', loc[p].start, loc[p].end,
                          loc[p].metric_type) :
         loc' = [loc EXCEPT ![p] =
                   [waited |-> 0, op |-> "range",
                    metric_type |-> loc[p].metric_type,
                    start |-> loc[p].start, end |-> loc[p].end,
                    res |-> Dicts(s), partial |-> Partial(s)]]
    /\ pc' = [pc EXCEPT ![p] = "rd_fetch"]
    /\ UNCHANGED << now, calls, returned, cleaned, crashes, columns, backend >>

\* The count taken from the key instead of the rows: SELECT MAX(id).
StatsCount_MaxId(p) ==
    /\ pc[p] = "st_count"
    /\ ReadLock(p)
    /\ loc' = [loc EXCEPT ![p] =
                 [waited |-> 0, op |-> "stats",
                  total_records |-> MaxOf({r.id : r \in disk'})]]
    /\ pc' = [pc EXCEPT ![p] = "st_types"]
    /\ UNCHANGED << now, readers, calls, returned, cleaned, crashes,
                    columns, backend >>

\* get_database_stats, lines 226-227: the connection is opened.
StatsCall(p) ==
    /\ p = Reader
    /\ pc[p] = "idle"
    /\ calls[p] < MaxReads
    /\ loc' = [loc EXCEPT ![p] = [waited |-> 0, op |-> "stats"]]
    /\ pc' = [pc EXCEPT ![p] = "st_count"]
    /\ calls' = [calls EXCEPT ![p] = @ + 1]
    /\ UNCHANGED << now, disk, seq, journal, torn, writer, wlevel, readers,
                    returned, cleaned, crashes, columns, backend >>

\* SELECT COUNT(*) FROM metrics; fetchone() (lines 229-230).  Each SELECT of
\* the call is a read transaction of its own.
StatsCount(p) ==
    /\ pc[p] = "st_count"
    /\ ReadLock(p)
    /\ loc' = [loc EXCEPT ![p] =
                 [waited |-> 0, op |-> "stats",
                  total_records |-> Cardinality(disk')]]
    /\ pc' = [pc EXCEPT ![p] = "st_types"]
    /\ UNCHANGED << now, readers, calls, returned, cleaned, crashes,
                    columns, backend >>

\* SELECT metric_type, COUNT(*) ... GROUP BY metric_type (lines 232-237).
GroupByType(rows) ==
    [t \in {r.metric_type : r \in rows} |->
        Cardinality({r \in rows : r.metric_type = t})]

StatsTypes(p) ==
    /\ pc[p] = "st_types"
    /\ ReadLock(p)
    /\ loc' = [loc EXCEPT ![p] =
                 [waited |-> 0, op |-> "stats",
                  total_records |-> loc[p].total_records,
                  by_type |-> GroupByType(disk')]]
    /\ pc' = [pc EXCEPT ![p] = "st_range"]
    /\ UNCHANGED << now, readers, calls, returned, cleaned, crashes,
                    columns, backend >>

\* SELECT MAX(timestamp) where SELECT MIN(timestamp) belongs.
MinTimestamp_Newest(rows) ==
    IF rows = {} THEN None
    ELSE (CHOOSE r \in rows :
            \A q \in rows : TextLeq(q.timestamp, r.timestamp)).timestamp

\* SELECT MIN(timestamp), MAX(timestamp) (lines 239-243): NULL, NULL on an
\* empty table.
MinTimestamp(rows) ==
    IF rows = {} THEN None
    ELSE (CHOOSE r \in rows :
            \A q \in rows : TextLeq(r.timestamp, q.timestamp)).timestamp

MaxTimestamp(rows) ==
    IF rows = {} THEN None
    ELSE (CHOOSE r \in rows :
            \A q \in rows : TextLeq(q.timestamp, r.timestamp)).timestamp

StatsRange(p) ==
    /\ pc[p] = "st_range"
    /\ ReadLock(p)
    /\ loc' = [loc EXCEPT ![p] =
                 [waited |-> 0, op |-> "stats",
                  total_records |-> loc[p].total_records,
                  by_type |-> loc[p].by_type,
                  oldest_record |-> MinTimestamp(disk'),
                  newest_record |-> MaxTimestamp(disk')]]
    /\ pc' = [pc EXCEPT ![p] = "st_done"]
    /\ UNCHANGED << now, readers, calls, returned, cleaned, crashes,
                    columns, backend >>

\* The table dropped and created again on every start.
InitDatabase_Recreate(p) ==
    /\ p = Reader
    /\ pc[p] = "idle"
    /\ calls[p] < MaxReads
    /\ CanReserve /\ CanExclude(p)
    /\ disk' = {}
    /\ calls' = [calls EXCEPT ![p] = @ + 1]
    /\ UNCHANGED << now, seq, journal, torn, writer, wlevel, readers, pc, loc,
                    returned, cleaned, crashes, columns, backend >>

\* The error of ALTER TABLE on the column that exists, not passed over.
InitDatabase_Uncaught(p) ==
    /\ p = Reader
    /\ pc[p] = "idle"
    /\ calls[p] < MaxReads
    /\ "data_source" \in columns
    /\ ReadLock(p)
    /\ calls' = [calls EXCEPT ![p] = @ + 1]
    /\ loc' = [loc EXCEPT ![p] = [waited |-> 0, error |-> "duplicate column"]]
    /\ pc' = [pc EXCEPT ![p] = "raised"]
    /\ UNCHANGED << now, readers, returned, cleaned, crashes, columns,
                    backend >>

\* MetricsDatabase(db_path) on a database created before the column
\* data_source existed (lines 21-69): ALTER TABLE ... ADD COLUMN data_source
\* TEXT DEFAULT 'python' succeeds; it changes the schema and no row.
InitDatabaseMigrate(p) ==
    /\ p = Reader
    /\ pc[p] = "idle"
    /\ calls[p] < MaxReads
    /\ "data_source" \notin columns
    /\ CanReserve /\ CanExclude(p)
    /\ ReadLock(p)
    /\ columns' = columns \cup {"data_source"}
    /\ calls' = [calls EXCEPT ![p] = @ + 1]
    /\ UNCHANGED << now, readers, pc, loc, returned, cleaned, crashes,
                    backend >>

\* MetricsDatabase(db_path) on the existing database, _init_database (lines
\* 21-69): the table and the indexes exist, so the CREATE ... IF NOT EXISTS
\* statements read the schema and do nothing, ALTER TABLE fails on the
\* duplicate column and the error is passed over; nothing is written.
InitDatabase(p) ==
    /\ p = Reader
    /\ pc[p] = "idle"
    /\ calls[p] < MaxReads
    /\ "data_source" \in columns
    /\ ReadLock(p)
    /\ calls' = [calls EXCEPT ![p] = @ + 1]
    /\ UNCHANGED << now, readers, pc, loc, returned, cleaned, crashes,
                    columns, backend >>

\* A SELECT finds a writer PENDING or EXCLUSIVE and waits,
SelectWait(p) ==
    /\ pc[p] \in {"rd_exec", "st_count", "st_types", "st_range"}
    /\ ~CanShare
    /\ BusyWait(p)
    /\ UNCHANGED << now, disk, seq, journal, torn, writer, wlevel, readers,
                    calls, returned, cleaned, crashes, columns, backend >>

\* ... until "database is locked" leaves the call.
SelectFail(p) ==
    /\ pc[p] \in {"rd_exec", "st_count", "st_types", "st_range"}
    /\ ~CanShare
    /\ BusyFail(p)
    /\ UNCHANGED << now, disk, seq, journal, torn, writer, wlevel, readers,
                    calls, returned, cleaned, crashes, columns, backend >>

\* rows = cursor.fetchall(); conn.close(); return [...]: SHARED is dropped.
ReadReturn(p) ==
    /\ pc[p] \in {"rd_fetch", "st_done"}
    /\ readers' = readers \ {p}
    /\ loc' = [loc EXCEPT ![p] = NoLoc]
    /\ pc' = [pc EXCEPT ![p] = "idle"]
    /\ UNCHANGED << now, disk, seq, journal, torn, writer, wlevel, calls,
                    returned, cleaned, crashes, columns, backend >>

\* The process of a write call dies: the operating system drops its locks,
\* its page cache is gone, a journal it was writing stays behind.
Crash(p) ==
    /\ p \in Writers \cup {Cleaner}
    /\ crashes < MaxCrashes
    /\ crashes' = crashes + 1
    /\ pc[p] \in {"ins_commit", "ins_sync", "ins_done",
                 "cl_commit", "cl_sync", "cl_done"}
    /\ Unlock(p)
    /\ loc' = [loc EXCEPT ![p] = NoLoc]
    /\ pc' = [pc EXCEPT ![p] = "idle"]
    /\ UNCHANGED << now, disk, seq, journal, torn, calls, returned, cleaned,
                    columns, backend >>

WriterNext(w) ==
    \/ InsertCall(w)
    \/ InsertExec(w)
    \/ InsertExecWait(w)
    \/ InsertExecFail(w)
    \/ InsertCommit(w)
    \/ InsertSync(w)
    \/ InsertReturn(w)
    \/ Raise(w)

CleanerNext ==
    \/ CleanupExec(Cleaner)
    \/ CleanupCommit(Cleaner)
    \/ CleanupSync(Cleaner)
    \/ CleanupReturn(Cleaner)
    \/ Raise(Cleaner)

\* Writers and a cleaner on one database.
Next ==
    \/ \E t \in Midnights : Tick(t)
    \/ \E w \in Writers : WriterNext(w)
    \/ \E r \in RetentionDays : CleanupCall(Cleaner, r)
    \/ CleanerNext
    \/ CleanupExecWait(Cleaner)
    \/ CleanupExecFail(Cleaner)

Spec == Init /\ [][Next]_vars

\* One writer, the cleaner and a reader on one database; processes may die.
StoreNext ==
    \/ \E t \in Midnights : Tick(t)
    \/ WriterNext("w1")
    \/ InsertCommitWait("w1")
    \/ InsertCommitFail("w1")
    \/ \E r \in RetentionDays : CleanupCall(Cleaner, r)
    \/ CleanerNext
    \/ CleanupExecWait(Cleaner)
    \/ CleanupExecFail(Cleaner)
    \/ CleanupCommitWait(Cleaner)
    \/ CleanupCommitFail(Cleaner)
    \/ LatestCall(Reader, None, 1)
    \/ \E a \in Midnights : RangeCall(Reader, a, a, None)
    \/ StatsCall(Reader)
    \/ InitDatabase(Reader)
    \/ LatestExec(Reader)
    \/ RangeExec(Reader)
    \/ StatsCount(Reader)
    \/ StatsTypes(Reader)
    \/ StatsRange(Reader)
    \/ SelectWait(Reader)
    \/ SelectFail(Reader)
    \/ ReadReturn(Reader)
    \/ Raise(Reader)
    \/ \E p \in {"w1", Cleaner} : Crash(p)

StoreSpec == Init /\ [][StoreNext]_vars

\* ------------------------------------------------------------------ stores
\* The stores that sequential inserts of n rows leave behind: ids 1..n,
\* timestamps in the order of the ids.
StoreOf(f) ==
    {NewRow(i, [timestamp |-> IsoFormat(f[i][1]), hostname |-> "h1",
                metric_type |-> f[i][2],
                metric_data |-> JsonDumps(CHOOSE md \in Payloads : TRUE),
                status |-> "OK", data_source |-> "python"]) :
        i \in DOMAIN f}

Stores ==
    UNION {{StoreOf(f) :
              f \in {g \in [1..n -> Instants \X MetricTypes] :
                       \A i, j \in 1..n :
                           i < j => AtOrBefore(g[i][1], g[j][1])}} :
           n \in 0..MaxRows}

StoreInit ==
    /\ now \in Instants
    /\ disk \in {S \in Stores :
                   \A r \in S : TextLeq(r.timestamp, IsoFormat(now))}
    /\ seq = Cardinality(disk)
    /\ journal = NoJournal
    /\ torn = {}
    /\ writer = NoProc
    /\ wlevel = "NONE"
    /\ readers = {}
    /\ pc = [p \in Procs |-> "idle"]
    /\ loc = [p \in Procs |-> NoLoc]
    /\ calls = [p \in Procs |-> 0]
    /\ returned = {}
    /\ cleaned = 0
    /\ crashes = 0
    /\ columns = TableColumns
    /\ BackendInit

Limits == (0 - 1)..MaxLimit

\* A reader querying a given store.
QueryNext ==
    \/ \E mt \in Filters, n \in Limits : LatestCall(Reader, mt, n)
    \/ \E a, b \in Instants, mt \in Filters : RangeCall(Reader, a, b, mt)
    \/ LatestExec(Reader)
    \/ RangeExec(Reader)
    \/ ReadReturn(Reader)

\* The clock of the reader's store stands at the last instant.
QueryInit == StoreInit /\ \A t \in Instants : AtOrBefore(t, now)

QuerySpec == QueryInit /\ [][QueryNext]_vars

\* The cleaner sweeping a given store as the clock moves on.
SweepNext ==
    \/ \E t \in Instants : Tick(t)
    \/ \E r \in RetentionDays : CleanupCall(Cleaner, r)
    \/ CleanupExec(Cleaner)
    \/ CleanupCommit(Cleaner)
    \/ CleanupSync(Cleaner)
    \/ CleanupReturn(Cleaner)

SweepSpec == StoreInit /\ [][SweepNext]_vars

\* The cleaner sweeping a given store while a reader queries it.
TornNext ==
    \/ \E r \in RetentionDays : CleanupCall(Cleaner, r)
    \/ CleanerNext
    \/ CleanupCommitWait(Cleaner)
    \/ CleanupCommitFail(Cleaner)
    \/ LatestCall(Reader, None, MaxLimit)
    \/ \E a \in Instants : RangeCall(Reader, a, now, None)
    \/ StatsCall(Reader)
    \/ LatestExec(Reader)
    \/ RangeExec(Reader)
    \/ StatsCount(Reader)
    \/ StatsTypes(Reader)
    \/ StatsRange(Reader)
    \/ SelectWait(Reader)
    \/ SelectFail(Reader)
    \/ ReadReturn(Reader)
    \/ Raise(Reader)

TornSpec == QueryInit /\ [][TornNext]_vars

\* A connection that waits for a lock is running its busy handler: its next
\* retry, or its giving up, does come.  Nothing makes a lock holder go on.
Fairness ==
    /\ \A w \in Writers :
         WF_vars(InsertExec(w) \/ InsertExecWait(w) \/ InsertExecFail(w))
    /\ WF_vars(CleanupExec(Cleaner) \/ CleanupExecWait(Cleaner)
               \/ CleanupExecFail(Cleaner))

FairSpec == Spec /\ Fairness

\* ------------------------------------------------------------------ claims
NumWriters == Cardinality(Writers)
NoCleanup == calls[Cleaner] = 0
WritersIdle == \A w \in Writers : pc[w] = "idle"
WritersDone == WritersIdle /\ \A w \in Writers : calls[w] = MaxCalls
DiskIds == {r.id : r \in disk}
ReturnedIds == {x.id : x \in returned}

\* C1 as stated: when N writers have each called insert_metrics K times
\* concurrently (and nothing was cleaned up), every call has returned an id
\* and the store holds exactly N*K records.
C1_EveryCallReturns ==
    (NoCleanup /\ WritersDone) =>
        /\ Cardinality(returned) = NumWriters * MaxCalls
        /\ Cardinality(disk) = NumWriters * MaxCalls

\* C1, amended: a call of insert_metrics either returns an id or raises
\* "database is locked"; the ids returned are pairwise distinct, every
\* returned id is the id of a stored record (no write is lost), a writer gets
\* no more ids than it made calls, and when the writers have finished the
\* store holds exactly the records of the calls that returned an id.
C1_ReturnedWritesKept ==
    NoCleanup =>
        /\ \A x, y \in returned : x.id = y.id => x = y
        /\ ReturnedIds \subseteq DiskIds
        /\ \A w \in Writers :
            /\ pc[w] = "raised" => loc[w].error = "locked"
            /\ Cardinality({x \in returned : x.by = w}) <= calls[w]
        /\ WritersIdle =>
            /\ DiskIds = ReturnedIds
            /\ Cardinality(disk) = Cardinality(returned)

\* C1 witness: all N*K calls have returned an id, the calls of the writers
\* interleaved.
C1_Witness ==
    /\ NoCleanup
    /\ WritersDone
    /\ Cardinality(returned) = NumWriters * MaxCalls
    /\ Cardinality(disk) = NumWriters * MaxCalls
    /\ \E x, y \in returned : x.by # y.by /\ x.id = 1 /\ y.id = 2

\* The ids of the inserts committed so far (no process dies under Spec).
CommittedIds ==
    ReturnedIds \cup {loc[w].row_id : w \in {v \in Writers : pc[v] = "ins_done"}}

\* C2: the id of every insert that commits is strictly greater than the id
\* of every insert committed before it, whatever cleanup_old_records has
\* deleted in between, and the id returned is the id of the committed row.
C2_IdsNeverReused ==
    /\ [][\A w \in Writers :
            (pc[w] = "ins_sync" /\ pc'[w] = "ins_done") =>
                /\ \A i \in CommittedIds : loc[w].row_id > i
                /\ loc[w].row_id = loc[w].row.id
                /\ loc[w].row \in disk']_vars
    /\ [](\A x, y \in returned : x.id = y.id => x = y)

\* C2 witness: cleanup has deleted the records with the highest ids and a
\* later insert has been given a still higher id.
C2_Witness ==
    /\ WritersIdle
    /\ cleaned >= 2
    /\ disk # {}
    /\ \E x \in returned : x.id \notin DiskIds
    /\ \A x \in returned, r \in disk : x.id \notin DiskIds => r.id > x.id

\* ------------------------------------------------------------------
\* The content of the store: the journal's while a commit is being written
\* or has been left unfinished, the file's otherwise.
Committed == IF journal.present THEN journal.rows ELSE disk

WritesIdle == \A p \in Writers \cup {Cleaner} : pc[p] = "idle"

\* C4: when get_database_stats counts the records after a sequence of
\* completed insert_metrics and cleanup_old_records calls, total_records is
\* the number of inserts that returned an id minus the sum of the counts
\* the cleanups returned.
C4_TotalIsInsertedMinusCleaned ==
    [][(pc[Reader] = "st_count" /\ pc'[Reader] = "st_types"
        /\ WritesIdle /\ crashes = 0) =>
            loc'[Reader].total_records = Cardinality(returned) - cleaned]_vars

\* C4 witness: stats has counted one record after two inserts and a cleanup
\* that deleted one of them.
C4_Witness ==
    /\ pc[Reader] = "st_types"
    /\ WritesIdle /\ crashes = 0
    /\ Cardinality(returned) = 2
    /\ cleaned = 1
    /\ loc[Reader].total_records = 1

\* C7: a committed record is never changed, and it leaves the store only as
\* a whole and only when cleanup_old_records commits its deletion.
C7_RecordsImmutable ==
    [][/\ \A r \in Committed :
            \/ r \in Committed'
            \/ /\ pc[Cleaner] = "cl_sync" /\ pc'[Cleaner] = "cl_done"
               /\ r \in loc[Cleaner].del
       /\ \A r \in Committed, q \in Committed' : q.id = r.id => q = r]_vars

\* C7 witness: a record that was there through an insert, a cleanup that
\* deleted another record, a query and a re-initialisation.
C7_Witness ==
    /\ cleaned >= 1
    /\ Committed # {}
    /\ calls[Reader] = MaxReads
    /\ calls["w1"] = MaxCalls
    /\ pc[Reader] = "rd_fetch"
    /\ loc[Reader].res # << >>

\* C8: insert_metrics has its id to return only once the complete row is
\* the committed content of the store; a writer that dies before the call
\* returns leaves either the complete record or no record with its id; and
\* no query result holds a record that was only partly in the file.
C8_CommittedBeforeReturn ==
    /\ [][\A w \in Writers :
            /\ (pc[w] # "ins_done" /\ pc'[w] = "ins_done") =>
                  /\ loc[w].row \in Committed'
                  /\ loc'[w].row_id = loc[w].row.id
                  /\ loc[w].row.id \notin torn'
            /\ (pc[w] \in {"ins_commit", "ins_sync", "ins_done"}
                /\ pc'[w] = "idle" /\ crashes' = crashes + 1) =>
                  \/ loc[w].row \in Committed'
                  \/ \A r \in Committed' : r.id # loc[w].row.id]_vars
    /\ [](pc[Reader] = "rd_fetch" => loc[Reader].partial = {})

\* C8 witness: the writer died while its row was half written (the journal
\* is still there) and a reader is about to query the store.
C8_Witness ==
    /\ crashes = 1
    /\ Hot
    /\ torn # {}
    /\ pc["w1"] = "idle"
    /\ pc[Reader] = "rd_exec"

RECURSIVE SumCounts(_)
SumCounts(f) ==
    IF DOMAIN f = {} THEN 0
    ELSE LET t == CHOOSE t \in DOMAIN f : TRUE
         IN  f[t] + SumCounts([u \in DOMAIN f \ {t} |-> f[u]])

\* C9, the part about get_database_stats: with cleanup_old_records running
\* beside it, the total_records of a call equals the sum of the by_type
\* counts of the same call.
C9_StatsNotTorn ==
    pc[Reader] = "st_done" =>
        loc[Reader].total_records = SumCounts(loc[Reader].by_type)

\* A call waits for the write lock another connection holds.
WaitingForLock(p) == pc[p] \in {"ins_exec", "cl_exec"} /\ ~CanReserve

\* C10: a call of insert_metrics or cleanup_old_records that waits for a
\* write lock that is never released ends with a failure; the failure
\* changes nothing in the store and leaves the failed call without a lock.
C10_BlockedWriteFails ==
    /\ \A p \in Writers \cup {Cleaner} :
         [](WaitingForLock(p) => <>(pc[p] = "raised" \/ CanReserve))
    /\ [][\A p \in Writers \cup {Cleaner} :
            (pc[p] # "raised" /\ pc'[p] = "raised") =>
                /\ loc'[p].error = "locked"
                /\ disk' = disk /\ seq' = seq /\ journal' = journal]_vars
    /\ [](\A p \in Writers \cup {Cleaner} :
            pc[p] = "raised" => writer # p /\ p \notin readers)

\* C10 witness: a writer whose first call failed on the lock has called
\* again and that call has returned an id.
C10_Witness ==
    \E w \in Writers :
        /\ calls[w] = 2
        /\ \E x \in returned : x.by = w /\ x.call = 2
        /\ ~ \E x \in returned : x.by = w /\ x.call = 1

\* The databases an earlier version of the program left behind: no column
\* data_source, or the column added to rows that are shorter.
ShortRows(S) == {[r EXCEPT !.data_source = Absent] : r \in S}

LegacyInit ==
    /\ now \in Instants
    /\ \A t \in Instants : AtOrBefore(t, now)
    /\ \/ /\ columns = TableColumns \ {"data_source"}
          /\ disk \in {ShortRows(S) : S \in Stores}
       \/ /\ columns = TableColumns
          /\ disk \in Stores \cup {ShortRows(S) : S \in Stores}
    /\ seq = Cardinality(disk)
    /\ journal = NoJournal
    /\ torn = {}
    /\ writer = NoProc
    /\ wlevel = "NONE"
    /\ readers = {}
    /\ pc = [p \in Procs |-> "idle"]
    /\ loc = [p \in Procs |-> NoLoc]
    /\ calls = [p \in Procs |-> 0]
    /\ returned = {}
    /\ cleaned = 0
    /\ crashes = 0
    /\ BackendInit

\* A program opens the database and queries it; a query is made through a
\* MetricsDatabase object, that is, after _init_database has run.
LegacyNext ==
    \/ InitDatabaseMigrate(Reader)
    \/ InitDatabase(Reader)
    \/ "data_source" \in columns /\ LatestCall(Reader, None, MaxLimit)
    \/ LatestExec(Reader)
    \/ ReadReturn(Reader)

LegacySpec == LegacyInit /\ [][LegacyNext]_vars

\* get_database_stats called on a store nothing writes to.
StatsNext ==
    \/ StatsCall(Reader)
    \/ StatsCount(Reader)
    \/ StatsTypes(Reader)
    \/ StatsRange(Reader)
    \/ ReadReturn(Reader)

StatsSpec == QueryInit /\ [][StatsNext]_vars

\* One program that inserts records of every shape its caller may pass and
\* queries them back.
TripPayloads ==
    {[usage_percent |-> PyInt(10)],
     [usage_percent |-> PyInt(10), count |-> PyList(<< 1, 2 >>)],
     [usage_percent |-> PyInt(10), count |-> PyTuple(<< 1, 2 >>)]}

TripArgs ==
    [hostname : {"", "h1"}, metric_type : {"", "cpu"},
     metric_data : TripPayloads, status : {"OK"},
     data_source : {Omitted, "windows"}]

TripNext ==
    \/ \E t \in Midnights : Tick(t)
    \/ InsertCallOf("w1", TripArgs)
    \/ InsertExec("w1")
    \/ InsertCommit("w1")
    \/ InsertCommitWait("w1")
    \/ InsertCommitFail("w1")
    \/ InsertSync("w1")
    \/ InsertReturn("w1")
    \/ Raise("w1")
    \/ LatestCall(Reader, None, MaxLimit)
    \/ RangeCall(Reader, << 1, 0, 0 >>, now, None)
    \/ LatestExec(Reader)
    \/ RangeExec(Reader)
    \/ SelectWait(Reader)
    \/ SelectFail(Reader)
    \/ ReadReturn(Reader)
    \/ Raise(Reader)

TripSpec == Init /\ [][TripNext]_vars

\* The store with its callers, one of them passing payloads json rejects.
FailNext ==
    \/ StoreNext
    \/ InsertCallFail("w1")

FailSpec == Init /\ [][FailNext]_vars

\* ------------------------------------------------------------------
\* The instant a stored or bound timestamp text stands for.
ParseIso(s) == CHOOSE t \in Instants : IsoFormat(t) = s

RowWithId(id) == CHOOSE r \in disk : r.id = id
ResultIds(res) == {res[i].id : i \in 1..Len(res)}

\* What a range query over [start, end] is to return, the filter applying
\* when Given(metric_type).
RangeAnswer(res, start, end, Matching) ==
    LET want == {r \in Matching :
                   /\ AtOrBefore(ParseIso(start), ParseIso(r.timestamp))
                   /\ AtOrBefore(ParseIso(r.timestamp), ParseIso(end))}
    IN  /\ ResultIds(res) = {r.id : r \in want}
        /\ Len(res) = Cardinality(want)
        /\ \A i \in 1..Len(res) : res[i] = RowToDict(RowWithId(res[i].id))
        /\ \A i, j \in 1..Len(res) :
             i < j => AtOrBefore(ParseIso(res[i].timestamp),
                                 ParseIso(res[j].timestamp))

RangeFetched ==
    /\ pc[Reader] = "rd_fetch"
    /\ loc[Reader].op = "range"
    /\ AtOrBefore(ParseIso(loc[Reader].start), ParseIso(loc[Reader].end))

\* C3 as stated: for start <= end, get_metrics_range returns exactly the
\* stored records with start <= timestamp <= end and, when a metric_type is
\* given (is not None), with that metric_type, ascending by timestamp.
C3_RangeExactWhenGiven ==
    RangeFetched =>
        RangeAnswer(loc[Reader].res, loc[Reader].start, loc[Reader].end,
                    {r \in disk : loc[Reader].metric_type # None =>
                                    r.metric_type = loc[Reader].metric_type})

\* C3, amended: the metric_type filter applies when the metric_type given is
\* not empty; None and the empty string both select all metric types.
C3_RangeExact ==
    RangeFetched =>
        RangeAnswer(loc[Reader].res, loc[Reader].start, loc[Reader].end,
                    {r \in disk : Truthy(loc[Reader].metric_type) =>
                                    r.metric_type = loc[Reader].metric_type})

\* C3 witness: a filtered range query has returned the one record at the
\* start of the range and left out a record of another type at its end.
C3_Witness ==
    /\ RangeFetched
    /\ Truthy(loc[Reader].metric_type)
    /\ Len(loc[Reader].res) = 1
    /\ loc[Reader].res[1].timestamp = loc[Reader].start
    /\ TextLess(loc[Reader].start, loc[Reader].end)
    /\ \E r \in disk :
         /\ r.metric_type # loc[Reader].metric_type
         /\ r.timestamp = loc[Reader].end

\* C5: cleanup_old_records deletes exactly the records whose timestamp is
\* earlier than the cutoff, the clock at the call minus retention_days,
\* keeps every other record and returns the number of records deleted.
C5_CleanupDeletesOlder ==
    /\ [][(pc[Cleaner] = "idle" /\ pc'[Cleaner] = "cl_exec") =>
            \E d \in RetentionDays :
                ParseIso(loc'[Cleaner].cutoff) = MinusDays(now, d)]_vars
    /\ [][(pc[Cleaner] = "cl_sync" /\ pc'[Cleaner] = "cl_done") =>
            LET old == {r \in disk :
                          Before(ParseIso(r.timestamp),
                                 ParseIso(loc[Cleaner].cutoff))}
            IN  /\ disk' = disk \ old
                /\ loc[Cleaner].deleted_count = Cardinality(old)]_vars
    /\ [][(pc[Cleaner] = "cl_done" /\ pc'[Cleaner] = "idle") =>
            cleaned' = cleaned + loc[Cleaner].deleted_count]_vars

\* C5 witness: a cleanup has deleted a record and kept a record whose
\* timestamp is the cutoff itself.
C5_Witness ==
    /\ pc[Cleaner] = "cl_done"
    /\ loc[Cleaner].deleted_count >= 1
    /\ \E r \in disk : r.timestamp = loc[Cleaner].cutoff

LatestFetched == pc[Reader] = "rd_fetch" /\ loc[Reader].op = "latest"

\* The records of res are n of the most recent of Matching, latest first.
MostRecent(res, Matching, n) ==
    /\ ResultIds(res) \subseteq {r.id : r \in Matching}
    /\ Cardinality(ResultIds(res)) = Len(res)
    /\ Len(res) = n
    /\ \A i \in 1..Len(res) : res[i] = RowToDict(RowWithId(res[i].id))
    /\ \A i, j \in 1..Len(res) :
         i < j => AtOrBefore(ParseIso(res[j].timestamp),
                             ParseIso(res[i].timestamp))
    /\ \A r \in Matching, i \in 1..Len(res) :
         r.id \notin ResultIds(res) =>
            AtOrBefore(ParseIso(r.timestamp), ParseIso(res[i].timestamp))

\* C6: for any filter and any integer limit, get_latest_metrics returns at
\* most limit records, the most recent ones that match the filter (every
\* record when the filter is left out), latest first.
C6_LatestAtMostLimit ==
    LatestFetched =>
        LET M == {r \in disk : Truthy(loc[Reader].metric_type) =>
                                 r.metric_type = loc[Reader].metric_type}
        IN  /\ Len(loc[Reader].res) <= loc[Reader].limit
            /\ MostRecent(loc[Reader].res, M, Len(loc[Reader].res))

\* C11: an insert_metrics call that fails, on an error of the storage
\* engine or on a payload that cannot be serialized, raises to its caller:
\* the failing step adds no row and leaves no lock behind, and the call
\* ends without an id.
C11_FailedInsertReported ==
    /\ [][\A w \in Writers :
            (/\ pc[w] \in {"ins_exec", "ins_commit"}
             /\ pc'[w] \notin {pc[w], "ins_commit", "ins_sync"}
             /\ crashes' = crashes) => pc'[w] = "raised"]_vars
    /\ [][\A w \in Writers :
            (pc[w] # "raised" /\ pc'[w] = "raised") =>
                /\ disk' = disk
                /\ seq' = seq
                /\ writer' # w
                /\ w \notin readers'
                /\ loc'[w].error \in {"locked", "TypeError"}]_vars
    /\ [][\A w \in Writers :
            (pc[w] = "raised" /\ pc'[w] # "raised") =>
                /\ pc'[w] = "idle"
                /\ disk' = disk
                /\ returned' = returned]_vars

\* C11 witness: the second call of a writer has failed on its payload, no
\* call has returned an id and the store is empty.
C11_Witness ==
    /\ pc["w1"] = "raised"
    /\ loc["w1"].error = "TypeError"
    /\ calls["w1"] = 2
    /\ returned = {}
    /\ disk = {}

RangeDone == pc[Reader] = "rd_fetch" /\ loc[Reader].op = "range"

\* The range is inverted, or holds no record, or (when Given) the filter is
\* a metric_type no stored record has.
NothingToFind(Given) ==
    \/ Before(ParseIso(loc[Reader].end), ParseIso(loc[Reader].start))
    \/ \A r \in disk :
         \/ Before(ParseIso(r.timestamp), ParseIso(loc[Reader].start))
         \/ Before(ParseIso(loc[Reader].end), ParseIso(r.timestamp))
    \/ /\ Given
       /\ \A r \in disk : r.metric_type # loc[Reader].metric_type

\* A range query changes nothing in the store.
RangeReadsOnly ==
    [][(pc[Reader] \in {"rd_exec", "rd_fetch"} /\ loc[Reader].op = "range")
          => (disk' = disk /\ seq' = seq)]_vars

\* C12 as stated: get_metrics_range with start > end, with a range holding
\* no record, or with a given metric_type (one that is not None) that no
\* stored record has, returns the empty sequence without an error and
\* leaves the store unchanged.
C12_EmptyRangeWhenGiven ==
    /\ [](RangeDone /\ NothingToFind(loc[Reader].metric_type # None)
            => loc[Reader].res = << >>)
    /\ RangeReadsOnly

\* C12, amended: the metric_type that no stored record has is not empty;
\* the empty string selects the records of every metric type.
C12_EmptyRange ==
    /\ [](RangeDone /\ NothingToFind(Truthy(loc[Reader].metric_type))
            => loc[Reader].res = << >>)
    /\ RangeReadsOnly

\* C12 witness: a range query with start > end has returned nothing although
\* a record lies between end and start.
C12_Witness ==
    /\ RangeDone
    /\ Before(ParseIso(loc[Reader].end), ParseIso(loc[Reader].start))
    /\ loc[Reader].res = << >>
    /\ \E r \in disk :
         /\ TextLeq(loc[Reader].end, r.timestamp)
         /\ TextLeq(r.timestamp, loc[Reader].start)

\* C13: insert_metrics accepts a record only when hostname and metric_type
\* are non-empty: no call with an empty hostname or an empty metric_type
\* returns an id, and no stored record has an empty hostname or metric_type.
C13_EmptyNamesRejected ==
    /\ \A x \in returned :
         x.given.hostname # "" /\ x.given.metric_type # ""
    /\ \A r \in disk : r.hostname # "" /\ r.metric_type # ""

RecordKeys ==
    {"id", "timestamp", "hostname", "metric_type", "metric_data", "status",
     "data_source"}

QueryFetched == pc[Reader] = "rd_fetch" /\ loc[Reader].op \in {"latest", "range"}

\* The record a query returns for the call x of insert_metrics, whose
\* metric_data is to be md.
ReturnedAs(d, x, md) ==
    /\ DOMAIN d = RecordKeys
    /\ d.hostname = x.given.hostname
    /\ d.metric_type = x.given.metric_type
    /\ d.status = x.given.status
    /\ d.data_source = IF x.given.data_source = Omitted THEN "python"
                       ELSE x.given.data_source
    /\ d.metric_data = md

\* A query that covers every record returns one record for each call of
\* insert_metrics that has returned, under the id the call returned.
AllReturned ==
    (QueryFetched /\ loc[Reader].op = "latest"
        /\ loc[Reader].limit >= Cardinality(returned))
    => \A x \in returned : x.id \in ResultIds(loc[Reader].res)

\* C15 as stated: a record inserted is returned by get_latest_metrics and by
\* get_metrics_range as a mapping with exactly the seven keys, under the id
\* insert_metrics returned, with metric_data equal to the payload inserted,
\* the other fields equal to the values inserted and data_source 'python'
\* when the caller gave none.
C15_RoundTripEqual ==
    /\ AllReturned
    /\ QueryFetched =>
         \A x \in returned, i \in 1..Len(loc[Reader].res) :
            loc[Reader].res[i].id = x.id =>
               ReturnedAs(loc[Reader].res[i], x, x.given.metric_data)

\* The payload as JSON gives it back: every tuple has become a list.
Listed(p) ==
    [k \in DOMAIN p |->
        IF p[k].kind = "tuple" THEN PyList(p[k].items) ELSE p[k]]

\* C15, amended: metric_data is the payload with every tuple turned into a
\* list; it equals the payload inserted when that holds no tuple.
C15_RoundTrip ==
    /\ AllReturned
    /\ QueryFetched =>
         \A x \in returned, i \in 1..Len(loc[Reader].res) :
            loc[Reader].res[i].id = x.id =>
               ReturnedAs(loc[Reader].res[i], x, Listed(x.given.metric_data))

\* C15 witness: a range query has returned a record inserted without a
\* source and with a list in its payload, and one inserted with a tuple.
C15_Witness ==
    /\ QueryFetched
    /\ loc[Reader].op = "range"
    /\ \E x, y \in returned :
         /\ x.given.data_source = Omitted
         /\ x.given.metric_data \in TripPayloads
         /\ "count" \in DOMAIN x.given.metric_data
         /\ x.given.metric_data["count"].kind = "list"
         /\ "count" \in DOMAIN y.given.metric_data
         /\ y.given.metric_data["count"].kind = "tuple"
         /\ {x.id, y.id} \subseteq ResultIds(loc[Reader].res)

\* C14: get_database_stats on any store returns total_records, the number
\* of records; by_type, the number of records of each stored metric_type
\* (summing to total_records); oldest_record and newest_record, the earliest
\* and the latest stored timestamp; on an empty store 0, no type and null,
\* null.
C14_StatsOfStore ==
    pc[Reader] = "st_done" =>
        LET st == loc[Reader] IN
        /\ st.total_records = Cardinality(disk)
        /\ DOMAIN st.by_type = {r.metric_type : r \in disk}
        /\ \A t \in DOMAIN st.by_type :
             st.by_type[t] = Cardinality({r \in disk : r.metric_type = t})
        /\ SumCounts(st.by_type) = st.total_records
        /\ disk = {} =>
             /\ st.total_records = 0
             /\ st.oldest_record = None
             /\ st.newest_record = None
        /\ disk # {} =>
             /\ \E r \in disk : r.timestamp = st.oldest_record
             /\ \E r \in disk : r.timestamp = st.newest_record
             /\ \A r \in disk :
                  /\ AtOrBefore(ParseIso(st.oldest_record),
                                ParseIso(r.timestamp))
                  /\ AtOrBefore(ParseIso(r.timestamp),
                                ParseIso(st.newest_record))

\* C14 witness: the statistics of a store of two records of two types with
\* two timestamps.
C14_Witness ==
    /\ pc[Reader] = "st_done"
    /\ loc[Reader].total_records = 2
    /\ Cardinality(DOMAIN loc[Reader].by_type) = 2
    /\ loc[Reader].oldest_record # loc[Reader].newest_record

\* A step that is a whole run of _init_database.
OpenStep ==
    /\ pc[Reader] = "idle"
    /\ pc'[Reader] # "rd_exec"
    /\ calls'[Reader] = calls[Reader] + 1

\* C16: opening a MetricsDatabase on an existing database, also one made
\* before the column data_source existed, does not fail; it keeps every
\* record with its id and its field values; a row that had no data_source
\* reads 'python'; and opening a database that was opened before changes
\* nothing.
C16_OpenKeepsRecords ==
    /\ [](pc[Reader] # "raised")
    /\ [][OpenStep =>
            /\ "data_source" \in columns'
            /\ Cardinality(disk') = Cardinality(disk)
            /\ \A r \in disk : \E q \in disk' :
                 /\ q.id = r.id
                 /\ q.timestamp = r.timestamp
                 /\ q.hostname = r.hostname
                 /\ q.metric_type = r.metric_type
                 /\ q.metric_data = r.metric_data
                 /\ q.status = r.status
                 /\ RowToDict(q).data_source =
                       IF r.data_source = Absent THEN "python"
                       ELSE r.data_source
            /\ "data_source" \in columns =>
                 (disk' = disk /\ seq' = seq /\ columns' = columns)]_vars
    /\ [](QueryFetched =>
            \A i \in 1..Len(loc[Reader].res) :
               loc[Reader].res[i].data_source \in Sources)

\* C16 witness: a database without the column has been opened and a query
\* has returned its two records with data_source 'python'.
C16_Witness ==
    /\ QueryFetched
    /\ Len(loc[Reader].res) = 2
    /\ \A r \in disk : r.data_source = Absent
    /\ \A i \in 1..2 : loc[Reader].res[i].data_source = "python"
    /\ calls[Reader] = 2

\* ----------------------------------------------------------------- backend
\* backend/metrics_writer.py writes a snapshot of the system's metrics to
\* shared/metrics.json every interval; backend/api_server.py reads the file
\* for every request of /api/metrics.  A file is an inode, its text the
\* sequence of the pieces written to it, each piece tagged with the number
\* of the snapshot it belongs to; a name of the directory stands for an
\* inode, and an open file keeps its inode whatever the name does.
MaxIterations == 3
MaxRequests == 2
\* The pieces json.dump writes a snapshot in.
Chunks == 2

Complete(text) ==
    /\ Len(text) = Chunks
    /\ \A i \in 1..Chunks : text[i] = text[1]

\* The text of the file a name stands for.
TextAt(name) == inodes[shared[name]]

db == << now, disk, seq, journal, torn, writer, wlevel, readers, pc, loc,
         calls, returned, cleaned, crashes, columns >>

\* metrics = collect_metrics() (line 41): the next snapshot.
LoopCollect ==
    /\ loop.pc = "collect"
    /\ loop.iterations < MaxIterations
    /\ loop' = [loop EXCEPT !.pc = "open",
                            !.metrics = loop.iterations + 1,
                            !.iterations = @ + 1,
                            !.before = IF shared.metrics = NoFile THEN << >>
                                       ELSE TextAt("metrics")]
    /\ UNCHANGED << db, inodes, shared, api >>

\* ... or collect_metrics raises (psutil): the except clause of line 48 is
\* entered.
LoopCollectFail ==
    /\ loop.pc = "collect"
    /\ loop.iterations < MaxIterations
    /\ loop' = [loop EXCEPT !.pc = "failed",
                            !.iterations = @ + 1,
                            !.before = IF shared.metrics = NoFile THEN << >>
                                       ELSE TextAt("metrics")]
    /\ UNCHANGED << db, inodes, shared, api >>

\* The snapshot written into metrics.json itself: open(METRICS_FILE, 'w').
LoopOpen_InPlace ==
    /\ loop.pc = "open"
    /\ IF shared.metrics = NoFile
       THEN /\ inodes' = Append(inodes, << >>)
            /\ shared' = [shared EXCEPT !.metrics = Len(inodes) + 1]
       ELSE /\ inodes' = [inodes EXCEPT ![shared.metrics] = << >>]
            /\ UNCHANGED shared
    /\ loop' = [loop EXCEPT !.pc = "dump", !.f = shared'.metrics]
    /\ UNCHANGED << db, api >>

\* open(temp_file, 'w') (lines 43-44): the file is created, or emptied if a
\* failed iteration has left it behind.
LoopOpen ==
    /\ loop.pc = "open"
    /\ IF shared.tmp = NoFile
       THEN /\ inodes' = Append(inodes, << >>)
            /\ shared' = [shared EXCEPT !.tmp = Len(inodes) + 1]
       ELSE /\ inodes' = [inodes EXCEPT ![shared.tmp] = << >>]
            /\ UNCHANGED shared
    /\ loop' = [loop EXCEPT !.pc = "dump", !.f = shared'.tmp]
    /\ UNCHANGED << db, api >>

\* json.dump(metrics, f, indent=2) (line 45): one more piece reaches the
\* file.
LoopDump ==
    /\ loop.pc = "dump"
    /\ Len(inodes[loop.f]) < Chunks
    /\ inodes' = [inodes EXCEPT ![loop.f] = Append(@, loop.metrics)]
    /\ UNCHANGED << db, shared, loop, api >>

\* The end of the with block: f is closed, every piece written.
LoopClose ==
    /\ loop.pc = "dump"
    /\ Len(inodes[loop.f]) = Chunks
    /\ loop' = [loop EXCEPT !.pc = "replace", !.f = NoFile]
    /\ UNCHANGED << db, inodes, shared, api >>

\* os.replace(temp_file, METRICS_FILE) (line 46): the name metrics.json
\* stands for the inode of the temporary file from now on, in one step; a
\* reader that has the old file open keeps it.
LoopReplace ==
    /\ loop.pc = "replace"
    /\ shared' = [metrics |-> shared.tmp, tmp |-> NoFile]
    /\ loop' = [loop EXCEPT !.pc = "sleep"]
    /\ UNCHANGED << db, inodes, api >>

\* An exception in open, json.dump or os.replace (the disk full, a file in
\* use): the with block closes f and the except clause of line 48 is
\* entered.
LoopFail ==
    /\ loop.pc \in {"open", "dump", "replace"}
    /\ loop' = [loop EXCEPT !.pc = "failed", !.f = NoFile]
    /\ UNCHANGED << db, inodes, shared, api >>

\* print(...); time.sleep(interval) of the except clause (lines 49-50), and
\* time.sleep(interval) of line 47; then the next round of while True.
LoopHandle ==
    /\ loop.pc = "failed"
    /\ loop' = [loop EXCEPT !.pc = "sleep"]
    /\ UNCHANGED << db, inodes, shared, api >>

LoopSleep ==
    /\ loop.pc = "sleep"
    /\ loop' = [loop EXCEPT !.pc = "collect"]
    /\ UNCHANGED << db, inodes, shared, api >>

\* A request of /api/metrics arrives: get_metrics is called.
ApiRequest ==
    /\ api.pc = "idle"
    /\ api.requests < MaxRequests
    /\ api' = [pc |-> "exists", f |-> NoFile, requests |-> api.requests + 1,
               response |-> [status |-> 0]]
    /\ UNCHANGED << db, inodes, shared, loop >>

\* os.path.exists(METRICS_FILE) (line 15), and the 404 of line 20.
ApiExists ==
    /\ api.pc = "exists"
    /\ api' = IF shared.metrics # NoFile
              THEN [api EXCEPT !.pc = "open"]
              ELSE [api EXCEPT !.pc = "respond",
                               !.response =
                                  [status |-> 404,
                                   error |-> "No metrics available yet"]]
    /\ UNCHANGED << db, inodes, shared, loop >>

\* open(METRICS_FILE, 'r') (line 16); FileNotFoundError is caught at line 21.
ApiOpen ==
    /\ api.pc = "open"
    /\ api' = IF shared.metrics # NoFile
              THEN [api EXCEPT !.pc = "load", !.f = shared.metrics]
              ELSE [api EXCEPT !.pc = "respond",
                               !.response =
                                  [status |-> 500,
                                   error |-> "FileNotFoundError"]]
    /\ UNCHANGED << db, inodes, shared, loop >>

\* data = json.load(f) (line 17) and return jsonify(data); a text that is
\* not a whole document raises JSONDecodeError, caught at line 21.
ApiLoad ==
    /\ api.pc = "load"
    /\ api' = IF Complete(inodes[api.f])
              THEN [api EXCEPT !.pc = "respond", !.f = NoFile,
                               !.response = [status |-> 200,
                                             data |-> inodes[api.f]]]
              ELSE [api EXCEPT !.pc = "respond", !.f = NoFile,
                               !.response = [status |-> 500,
                                             error |-> "JSONDecodeError"]]
    /\ UNCHANGED << db, inodes, shared, loop >>

\* The response is sent.
ApiRespond ==
    /\ api.pc = "respond"
    /\ api' = [api EXCEPT !.pc = "idle"]
    /\ UNCHANGED << db, inodes, shared, loop >>

BackendNext ==
    \/ LoopCollect
    \/ LoopCollectFail
    \/ LoopOpen
    \/ LoopDump
    \/ LoopClose
    \/ LoopReplace
    \/ LoopFail
    \/ LoopHandle
    \/ LoopSleep
    \/ ApiRequest
    \/ ApiExists
    \/ ApiOpen
    \/ ApiLoad
    \/ ApiRespond

BackendSpec == Init /\ [][BackendNext]_vars

\* ---------------------------------------------------------------- analyzer
\* MetricsAnalyzer: functions of a list of floats.  The values of the model
\* are whole numbers and its arithmetic is exact; a quotient is kept as the
\* pair of its numerator and denominator.
MaxWindowSeries == 3
MaxSeries == 5
MaxAnomalySeries == 6
MaxPercentileSeries == 4
MaxRecords == 3

SeqsUpTo(S, n) == UNION {[1..k -> S] : k \in 0..n}

RECURSIVE Sum(_)
Sum(s) == IF s = << >> THEN 0 ELSE Head(s) + Sum(Tail(s))

Abs(x) == IF x < 0 THEN 0 - x ELSE x

Frac(n, d) == [num |-> n, den |-> d]

\* values[start:stop] for start >= 0: a negative stop counts from the end.
PySlice(v, start, stop) ==
    LET n == Len(v)
        Clip(k) == IF k < 0 THEN (IF k + n < 0 THEN 0 ELSE k + n)
                   ELSE IF k > n THEN n ELSE k
        a == Clip(start)
        b == Clip(stop)
    IN  IF a >= b THEN << >> ELSE SubSeq(v, a + 1, b)

store == << now, disk, seq, journal, torn, writer, wlevel, readers, calls,
            returned, cleaned, crashes, columns, backend >>

\* What a call of the analyzer leaves with its caller: a result, or an
\* exception.
Returns(call, result) == call @@ [waited |-> 0, result |-> result]
Raises(call, error) == call @@ [waited |-> 0, error |-> error]

AnalyzerReturn(p) ==
    /\ pc[p] = "an_done"
    /\ loc' = [loc EXCEPT ![p] = NoLoc]
    /\ pc' = [pc EXCEPT ![p] = "idle"]
    /\ UNCHANGED store

\* calculate_moving_average with the loop one round short.
MovingAverages_OneShort(values, window_size) ==
    [i \in 1..(Len(values) - window_size) |->
        Frac(Sum(PySlice(values, i - 1, i - 1 + window_size)), window_size)]

\* calculate_moving_average, lines 32-37: sum(window) / window_size for
\* every i in range(len(values) - window_size + 1).
MovingAverages(values, window_size) ==
    [i \in 1..(Len(values) - window_size + 1) |->
        Frac(Sum(PySlice(values, i - 1, i - 1 + window_size)), window_size)]

\* calculate_moving_average (lines 29-37): the division of the first round
\* raises ZeroDivisionError when window_size is 0.
CalculateMovingAverage(p, values, window_size) ==
    /\ pc[p] = "idle"
    /\ LET call == [op |-> "moving_average", values |-> values,
                    window_size |-> window_size]
       IN  IF Len(values) < window_size
           THEN /\ loc' = [loc EXCEPT ![p] = Returns(call, values)]
                /\ pc' = [pc EXCEPT ![p] = "an_done"]
           ELSE IF window_size = 0
           THEN /\ loc' = [loc EXCEPT ![p] =
                             Raises(call, "ZeroDivisionError")]
                /\ pc' = [pc EXCEPT ![p] = "raised"]
           ELSE /\ loc' = [loc EXCEPT ![p] =
                             Returns(call,
                                     MovingAverages(values, window_size))]
                /\ pc' = [pc EXCEPT ![p] = "an_done"]
    /\ UNCHANGED store

\* The least-squares line through (i, values[i]), i = 0..n-1, lines 54-59:
\* numerator = SlopeNum / 2n and denominator = SlopeDen / 4.
SlopeNum(v) ==
    LET n == Len(v)
    IN  Sum([i \in 1..n |-> (2 * (i - 1) - (n - 1)) * (n * v[i] - Sum(v))])

SlopeDen(v) ==
    LET n == Len(v)
    IN  Sum([i \in 1..n |-> (2 * (i - 1) - (n - 1)) * (2 * (i - 1) - (n - 1))])

Direction(v) == IF SlopeNum(v) > 0 THEN "increasing" ELSE "decreasing"

\* detect_trend with the slope compared to the threshold as it is, not
\* divided by the mean.
TrendOf_Unnormalised(v, tn, td) ==
    IF Len(v) < 2 THEN {"stable"}
    ELSE IF SlopeDen(v) = 0 THEN {"stable"}
    ELSE IF 2 * Abs(SlopeNum(v)) * td < tn * Len(v) * SlopeDen(v)
         THEN {"stable"}
    ELSE {Direction(v)}

\* detect_trend (lines 50-72) with threshold tn/td: the results it may
\* return.  slope / y_mean is 2 SlopeNum / (SlopeDen * sum); where that
\* quotient is the threshold exactly, the rounding of the float division
\* decides the comparison.
TrendOf(v, tn, td) ==
    IF Len(v) < 2 THEN {"stable"}
    ELSE IF SlopeDen(v) = 0 THEN {"stable"}
    ELSE IF Sum(v) = 0 THEN {"stable"}
    ELSE LET rate == 2 * Abs(SlopeNum(v)) * td
             bar == tn * SlopeDen(v) * Abs(Sum(v))
         IN  IF rate < bar THEN {"stable"}
             ELSE IF rate = bar THEN {"stable", Direction(v)}
             ELSE {Direction(v)}

\* threshold: float = 0.1 (line 39).
DetectTrend(p, values) ==
    /\ pc[p] = "idle"
    /\ \E r \in TrendOf(values, 1, 10) :
         loc' = [loc EXCEPT ![p] =
                   Returns([op |-> "trend", values |-> values], r)]
    /\ pc' = [pc EXCEPT ![p] = "an_done"]
    /\ UNCHANGED store

\* detect_anomalies with the standard deviation of the population, the sum
\* of squares over n and not over n - 1.
AnomaliesOf_Population(v, tn, td) ==
    LET n == Len(v)
        dev == n * Sum([i \in 1..n |-> v[i] * v[i]]) - Sum(v) * Sum(v)
    IN  IF n < 3 THEN << >>
        ELSE IF dev = 0 THEN << >>
        ELSE SelectSeq([i \in 1..n |-> i - 1],
                       LAMBDA k :
                          (n * v[k + 1] - Sum(v)) * (n * v[k + 1] - Sum(v))
                             * td * td > tn * tn * dev)

\* detect_anomalies with the comparison turned round.
AnomaliesOf_Below(v, tn, td) ==
    LET n == Len(v)
        dev == n * Sum([i \in 1..n |-> v[i] * v[i]]) - Sum(v) * Sum(v)
    IN  IF n < 3 THEN << >>
        ELSE IF dev = 0 THEN << >>
        ELSE SelectSeq([i \in 1..n |-> i - 1],
                       LAMBDA k :
                          (n * v[k + 1] - Sum(v)) * (n * v[k + 1] - Sum(v))
                             * (n - 1) * td * td < tn * tn * n * dev)

\* detect_anomalies (lines 86-102) with std_threshold tn/td.  With s the sum
\* and dev = n * sum of squares - s * s, the sample variance is
\* dev / (n (n - 1)) and |value - mean| / stdev > tn/td is the comparison of
\* the squares below.
AnomaliesOf(v, tn, td) ==
    LET n == Len(v)
        dev == n * Sum([i \in 1..n |-> v[i] * v[i]]) - Sum(v) * Sum(v)
    IN  IF n < 3 THEN << >>
        ELSE IF dev = 0 THEN << >>
        ELSE SelectSeq([i \in 1..n |-> i - 1],
                       LAMBDA k :
                          (n * v[k + 1] - Sum(v)) * (n * v[k + 1] - Sum(v))
                             * (n - 1) * td * td > tn * tn * n * dev)

\* detect_anomalies called with a std_threshold tn/td >= 0 of the caller's.
DetectAnomaliesWith(p, values, tn, td) ==
    /\ pc[p] = "idle"
    /\ loc' = [loc EXCEPT ![p] =
                 Returns([op |-> "anomalies", values |-> values,
                          std_threshold |-> Frac(tn, td)],
                         AnomaliesOf(values, tn, td))]
    /\ pc' = [pc EXCEPT ![p] = "an_done"]
    /\ UNCHANGED store

\* The default with a lower threshold, 1.5.
DetectAnomalies_Lower(p, values) ==
    /\ pc[p] = "idle"
    /\ loc' = [loc EXCEPT ![p] =
                 Returns([op |-> "anomalies", values |-> values],
                         AnomaliesOf(values, 3, 2))]
    /\ pc' = [pc EXCEPT ![p] = "an_done"]
    /\ UNCHANGED store

\* std_threshold: float = 2.0 (line 75).
DetectAnomalies(p, values) ==
    /\ pc[p] = "idle"
    /\ loc' = [loc EXCEPT ![p] =
                 Returns([op |-> "anomalies", values |-> values],
                         AnomaliesOf(values, 2, 1))]
    /\ pc' = [pc EXCEPT ![p] = "an_done"]
    /\ UNCHANGED store

\* recent_values = values[-10:] (line 196).
RecentValues == 10
Recent(v) ==
    IF Len(v) > RecentValues
    THEN SubSeq(v, Len(v) - RecentValues + 1, Len(v))
    ELSE v

\* round(x, 2) of x = p / q thousandths, q > 0: the multiples of 0.01 it may
\* give; half-way between two of them the float nearest to x decides.
Round2(p, q) ==
    LET k == p \div (10 * q)
        rest == p - 10 * q * k
    IN  IF 2 * rest < 10 * q THEN {10 * k}
        ELSE IF 2 * rest > 10 * q THEN {10 * k + 10}
        ELSE {10 * k, 10 * k + 10}

Nothing == [some |-> FALSE, value |-> 0]
Some(x) == [some |-> TRUE, value |-> x]

\* predict_next_value with the line read at the last index, not one past it.
PredictionsOf_LastIndex(v) ==
    IF Len(v) < 2 THEN {Nothing}
    ELSE LET r == Recent(v)
             n == Len(r)
         IN  IF SlopeDen(r) = 0 THEN {Some(r[n])}
             ELSE {Some(x) : x \in Round2(Sum(r) * SlopeDen(r)
                                            + SlopeNum(r) * (n - 1),
                                          n * SlopeDen(r))}

\* predict_next_value (lines 190-213) on values in thousandths: slope * n +
\* intercept is y_mean + slope * (n + 1) / 2, that is
\* (sum * SlopeDen + SlopeNum * (n + 1)) / (n * SlopeDen).
PredictionsOf(v) ==
    IF Len(v) < 2 THEN {Nothing}
    ELSE LET r == Recent(v)
             n == Len(r)
         IN  IF SlopeDen(r) = 0 THEN {Some(r[n])}
             ELSE {Some(x) : x \in Round2(Sum(r) * SlopeDen(r)
                                            + SlopeNum(r) * (n + 1),
                                          n * SlopeDen(r))}

PredictNextValue(p, values) ==
    /\ pc[p] = "idle"
    /\ \E r \in PredictionsOf(values) :
         loc' = [loc EXCEPT ![p] =
                   Returns([op |-> "predict", values |-> values], r)]
    /\ pc' = [pc EXCEPT ![p] = "an_done"]
    /\ UNCHANGED store

\* ------------------------------------------------------------------ floats
\* calculate_percentiles and _percentile compute in Python floats: binary
\* floating point, every operation rounded to the nearest float, a tie to
\* the float of even mantissa.  The floats of the model have MantissaBits
\* bits of mantissa (binary64 has 53) and no bound on the exponent.  A float
\* is the fraction num / den in lowest terms, den a power of 2.
MantissaBits == 8

RECURSIVE Pow2(_)
Pow2(k) == IF k = 0 THEN 1 ELSE 2 * Pow2(k - 1)

\* The fraction n / d, d a power of 2, in lowest terms.
RECURSIVE Dyadic(_, _)
Dyadic(n, d) ==
    IF n = 0 THEN Frac(0, 1)
    ELSE IF d > 1 /\ n % 2 = 0 THEN Dyadic(n \div 2, d \div 2)
    ELSE Frac(n, d)

\* a / d, a > 0, scaled by a power of 2 into [2^(MantissaBits-1),
\* 2^MantissaBits): the scaled fraction and the scale taken out of it.
RECURSIVE Scaled(_, _, _, _)
Scaled(a, d, up, down) ==
    IF a >= Pow2(MantissaBits) * d THEN Scaled(a, 2 * d, up, 2 * down)
    ELSE IF a < Pow2(MantissaBits - 1) * d THEN Scaled(2 * a, d, 2 * up, down)
    ELSE [num |-> a, den |-> d, up |-> up, down |-> down]

\* The float nearest to n / d, d > 0.
Fl(n, d) ==
    IF n = 0 THEN Frac(0, 1)
    ELSE LET s == Scaled(Abs(n), d, 1, 1)
             q == s.num \div s.den
             rest == s.num - q * s.den
             m == IF 2 * rest < s.den THEN q
                  ELSE IF 2 * rest > s.den THEN q + 1
                  ELSE IF q % 2 = 0 THEN q ELSE q + 1
         IN  Dyadic((IF n < 0 THEN 0 - m ELSE m) * s.down, s.up)

Float(i) == Fl(i, 1)
FAdd(x, y) == Fl(x.num * y.den + y.num * x.den, x.den * y.den)
FSub(x, y) == Fl(x.num * y.den - y.num * x.den, x.den * y.den)
FMul(x, y) == Fl(x.num * y.num, x.den * y.den)
FLess(x, y) == x.num * y.den < y.num * x.den
FLeq(x, y) == x.num * y.den <= y.num * x.den

\* int(x) of a float x >= 0.
Trunc(x) == x.num \div x.den

\* sorted(values): the floats of values in ascending order.
RECURSIVE Sorted(_)
Sorted(v) ==
    IF v = << >> THEN << >>
    ELSE LET i == CHOOSE i \in 1..Len(v) :
                     \A j \in 1..Len(v) : FLeq(v[i], v[j])
         IN  << v[i] >>
                \o Sorted([j \in 1..(Len(v) - 1) |->
                              IF j < i THEN v[j] ELSE v[j + 1]])

\* The exact sum of floats, as the fraction of numerator num over den.
RECURSIVE ExactSum(_)
ExactSum(v) ==
    IF v = << >> THEN Frac(0, 1)
    ELSE LET t == ExactSum(Tail(v))
         IN  Frac(Head(v).num * t.den + t.num * Head(v).den,
                  Head(v).den * t.den)

\* statistics.mean: the exact sum over n, rounded once.
Mean(v) == LET t == ExactSum(v) IN Fl(t.num, t.den * Len(v))

\* The median taken as the upper of the two middle values.
Median_Upper(v) == Sorted(v)[Len(v) \div 2 + 1]

\* statistics.median: the middle value of the sorted data, or
\* (data[i - 1] + data[i]) / 2 of the two middle values.
Median(v) ==
    LET data == Sorted(v)
        n == Len(v)
    IN  IF n % 2 = 1 THEN data[n \div 2 + 1]
        ELSE LET t == FAdd(data[n \div 2], data[n \div 2 + 1])
             IN  Fl(t.num, 2 * t.den)

\* _percentile with the weights of the two values exchanged.
Percentile_Exchanged(sorted_values, percentile) ==
    LET n == Len(sorted_values)
        index == Fl((n - 1) * percentile, 100)
        lower == Trunc(index)
        upper == lower + 1
        weight == FSub(index, Float(lower))
    IN  IF upper >= n THEN sorted_values[lower + 1]
        ELSE FAdd(FMul(sorted_values[lower + 1], weight),
                  FMul(sorted_values[upper + 1],
                       FSub(Float(1), weight)))

\* _percentile (lines 131-139) of a non-empty sorted list; the list of
\* Python counts from 0, the sequence from 1.
Percentile(sorted_values, percentile) ==
    LET n == Len(sorted_values)
        index == Fl((n - 1) * percentile, 100)
        lower == Trunc(index)
        upper == lower + 1
        weight == FSub(index, Float(lower))
    IN  IF upper >= n THEN sorted_values[lower + 1]
        ELSE FAdd(FMul(sorted_values[lower + 1],
                       FSub(Float(1), weight)),
                  FMul(sorted_values[upper + 1], weight))

PercentileKeys == {"p25", "p75", "p90", "p95", "p99"}
StatKeys == {"min", "max", "mean", "median"} \cup PercentileKeys
PercentOf(k) ==
    CASE k = "p25" -> 25 [] k = "p75" -> 75 [] k = "p90" -> 90
      [] k = "p95" -> 95 [] k = "p99" -> 99

EmptyDict == [k \in {} |-> 0]

\* calculate_percentiles (lines 109-124).
PercentilesOf(values) ==
    IF values = << >> THEN EmptyDict
    ELSE LET sorted_values == Sorted(values)
         IN  [k \in StatKeys |->
                CASE k = "min" -> sorted_values[1]
                  [] k = "max" -> sorted_values[Len(values)]
                  [] k = "mean" -> Mean(values)
                  [] k = "median" -> Median(values)
                  [] OTHER -> Percentile(sorted_values, PercentOf(k))]

CalculatePercentiles(p, values) ==
    /\ pc[p] = "idle"
    /\ loc' = [loc EXCEPT ![p] =
                 Returns([op |-> "percentiles", values |-> values],
                         PercentilesOf(values))]
    /\ pc' = [pc EXCEPT ![p] = "an_done"]
    /\ UNCHANGED store

\* The inputs: short series of every shape, and for the prediction series
\* in thousandths, two of them longer than the ten values it reads.
WindowValues == {1, 2, 4}
Windows == (0 - 1)..(MaxWindowSeries + 1)
TrendValues == (0 - 1)..5
AnomalyValues == {5, 10, 100}
PredictValues == {1, 2, 3, 1000, 2000, 3000, 4000, 5000}
\* The values of the percentiles: small whole numbers, and a float whose
\* mantissa has every bit set (as that of 45.6 has all but a few).
PercentileValues == {1, 2, 3, 4, 5, Pow2(MantissaBits) - 1}
Floats(v) == [i \in 1..Len(v) |-> Float(v[i])]
\* ... and the five values 1..5, in order and out of it.
FiveValues == {<< 1, 2, 3, 4, 5 >>, << 3, 1, 2, 5, 4 >>}
LongSeries ==
    {<< 3000 >> \o [i \in 1..RecentValues |-> 1000 * i],
     [i \in 1..(RecentValues + 1) |-> 1000 * i]}

\* The caller is in one call at a time.
AnalyzerNext ==
    \/ /\ pc[Reader] = "idle"
       /\ \E v \in SeqsUpTo(WindowValues, MaxWindowSeries), w \in Windows :
             CalculateMovingAverage(Reader, v, w)
    \/ /\ pc[Reader] = "idle"
       /\ \E v \in SeqsUpTo(TrendValues, MaxSeries) : DetectTrend(Reader, v)
    \/ /\ pc[Reader] = "idle"
       /\ \E v \in SeqsUpTo(AnomalyValues, MaxAnomalySeries) :
             DetectAnomalies(Reader, v)
    \/ /\ pc[Reader] = "idle"
       /\ \E v \in SeqsUpTo(PredictValues, MaxSeries) \cup LongSeries :
             PredictNextValue(Reader, v)
    \/ /\ pc[Reader] = "idle"
       /\ \E v \in SeqsUpTo(PercentileValues, MaxPercentileSeries)
                    \cup FiveValues :
             CalculatePercentiles(Reader, Floats(v))
    \/ AnalyzerReturn(Reader)
    \/ Raise(Reader)

AnalyzerSpec == Init /\ [][AnalyzerNext]_vars

\* ----------------------------------------------------------------- history
\* analyze_metric_history reads records as the queries return them, and
\* records of other shapes.  More values of Python: a bool, a str.
PyBool(b) == [kind |-> "bool", items |-> << IF b THEN 1 ELSE 0 >>]
PyStr == [kind |-> "str", items |-> << >>]

\* isinstance(data, dict): a mapping of the model is a function of its keys,
\* any other value a record of its kind and items.
IsDict(data) == "kind" \notin DOMAIN data

\* isinstance(value, (int, float)): bool is a subclass of int.
IsNumber(value) == value.kind \in {"int", "bool"}

\* record.get('metric_data', {}) (line 157).
GetMetricData(record) ==
    IF "metric_data" \in DOMAIN record THEN record.metric_data
    ELSE [k \in {} |-> PyStr]

\* The loop of lines 155-161: float(value) of every record that has one, in
\* the order of the records.  float(True) is 1.0, float(False) 0.0.
RECURSIVE ExtractValues(_, _)
ExtractValues(metric_data, metric_key) ==
    IF metric_data = << >> THEN << >>
    ELSE LET data == GetMetricData(Head(metric_data))
             rest == ExtractValues(Tail(metric_data), metric_key)
         IN  IF IsDict(data) /\ metric_key \in DOMAIN data
                /\ IsNumber(data[metric_key])
             THEN << data[metric_key].items[1] >> \o rest
             ELSE rest

NoValidData == [error |-> "No valid data points"]

\* The analysis with the moving averages cut to their first 5.
MovingAvg5_First(values) ==
    IF Len(values) >= 5 THEN PySlice(MovingAverages(values, 5), 0, 5)
    ELSE values

\* calculate_moving_average(values, 5)[-5:] if len(values) >= 5 else values
\* (line 172).
MovingAvg5(values) ==
    IF Len(values) >= 5
    THEN PySlice(MovingAverages(values, 5), 0 - 5,
                 Len(MovingAverages(values, 5)))
    ELSE values

\* analyze_metric_history (lines 153-175).
AnalyzeMetricHistory(p, metric_data, metric_key) ==
    /\ pc[p] = "idle"
    /\ LET call == [op |-> "history", metric_data |-> metric_data,
                    metric_key |-> metric_key]
           values == ExtractValues(metric_data, metric_key)
       IN  IF values = << >>
           THEN loc' = [loc EXCEPT ![p] = Returns(call, NoValidData)]
           ELSE \E t \in TrendOf(values, 1, 10) :
                  loc' = [loc EXCEPT ![p] =
                     Returns(call,
                        [data_points |-> Len(values),
                         statistics |-> PercentilesOf(Floats(values)),
                         trend |-> t,
                         anomalies_count |->
                            Len(AnomaliesOf(values, 2, 1)),
                         moving_avg_5 |-> MovingAvg5(values)])]
    /\ pc' = [pc EXCEPT ![p] = "an_done"]
    /\ UNCHANGED store

\* A record of the store carrying the payload md.
Record(md) ==
    [id |-> 1, timestamp |-> IsoFormat(<< 1, 0, 0 >>), hostname |-> "h1",
     metric_type |-> "cpu", metric_data |-> md, status |-> "OK",
     data_source |-> "python"]

\* The records given to the analysis: with a number under the key, with a
\* bool or a str under it, without the key, with a payload that is no
\* mapping, and without metric_data.
HistoryRecords ==
    {Record([usage_percent |-> PyInt(n)]) : n \in {2, 9}}
      \cup {Record([usage_percent |-> PyBool(TRUE)]),
            Record([usage_percent |-> PyStr]),
            Record([count |-> PyInt(4)]),
            Record(PyList(<< 4 >>)),
            [id |-> 1]}

\* Histories of 5 to 11 usable records, the last of them an outlier among
\* equal values.
Reading(n) == Record([usage_percent |-> PyInt(n)])
LongHistories ==
    {[i \in 1..k |-> Reading(i)] : k \in 5..(RecentValues + 1)}
      \cup {[i \in 1..7 |-> Reading(IF i = 7 THEN 9 ELSE 2)]}

HistoryKeys == {"usage_percent", "count"}

HistoryNext ==
    \/ /\ pc[Reader] = "idle"
       /\ \E m \in SeqsUpTo(HistoryRecords, MaxRecords) \cup LongHistories,
             k \in HistoryKeys :
             AnalyzeMetricHistory(Reader, m, k)
    \/ AnalyzerReturn(Reader)

HistorySpec == Init /\ [][HistoryNext]_vars

\* The thresholds a caller of detect_anomalies passes: 0, 1, 1.5 and 2.
Thresholds == {<< 0, 1 >>, << 1, 1 >>, << 3, 2 >>, << 2, 1 >>}

ThresholdNext ==
    \/ /\ pc[Reader] = "idle"
       /\ \E v \in SeqsUpTo(AnomalyValues, MaxAnomalySeries),
             t \in Thresholds :
             DetectAnomaliesWith(Reader, v, t[1], t[2])
    \/ AnalyzerReturn(Reader)

ThresholdSpec == Init /\ [][ThresholdNext]_vars

\* ------------------------------------------------------------------
AnalyzerCalled(op) ==
    /\ pc[Reader] \in {"an_done", "raised"}
    /\ loc[Reader].op = op

\* The call has returned Len(v) - w + 1 values, the i-th the mean of the w
\* values from the i-th on.
WindowMeans(v, w) ==
    /\ pc[Reader] = "an_done"
    /\ Len(loc[Reader].result) = Len(v) - w + 1
    /\ \A i \in 1..Len(loc[Reader].result) :
         loc[Reader].result[i].num * w =
            Sum(SubSeq(v, i, i + w - 1)) * loc[Reader].result[i].den

Unchanged(v) == pc[Reader] = "an_done" /\ loc[Reader].result = v

\* C17 as stated: for a sequence of length n and every window w <= n,
\* calculate_moving_average returns n - w + 1 values, the i-th the mean of
\* values[i .. i+w-1]; for every w > n it returns the sequence unchanged.
C17_MovingAverageAnyWindow ==
    AnalyzerCalled("moving_average") =>
        LET v == loc[Reader].values
            w == loc[Reader].window_size
        IN  IF w > Len(v) THEN Unchanged(v) ELSE WindowMeans(v, w)

\* C17, amended: the windows w <= n are those of at least one value,
\* 1 <= w <= n.
C17_MovingAverage ==
    AnalyzerCalled("moving_average") =>
        LET v == loc[Reader].values
            w == loc[Reader].window_size
        IN  /\ w > Len(v) => Unchanged(v)
            /\ (1 <= w /\ w <= Len(v)) => WindowMeans(v, w)

\* C17 witness: the moving average of [1, 2, 4] with window 2 is
\* [3/2, 6/2].
C17_Witness ==
    /\ AnalyzerCalled("moving_average")
    /\ pc[Reader] = "an_done"
    /\ loc[Reader].values = << 1, 2, 4 >>
    /\ loc[Reader].window_size = 2
    /\ loc[Reader].result = << Frac(3, 2), Frac(6, 2) >>

\* The series is k equal values followed by one larger value.
EqualThenLarger(v, k) ==
    /\ Len(v) = k + 1
    /\ \A i \in 1..k : v[i] = v[1]
    /\ v[k + 1] > v[1]

AllEqual(v) == \A i \in 1..Len(v) : v[i] = v[1]

\* C18 as stated: detect_anomalies with threshold 2.0 on four equal values
\* followed by one larger value (as [10,10,10,10,100]) returns exactly the
\* index 4 of the larger value; on equal values it returns the empty list.
C18_OutlierOfFiveFlagged ==
    AnalyzerCalled("anomalies") =>
        /\ EqualThenLarger(loc[Reader].values, 4) =>
              loc[Reader].result = << 4 >>
        /\ AllEqual(loc[Reader].values) => loc[Reader].result = << >>

\* C18, amended: on four (or fewer) equal values followed by one larger
\* value the result is empty, the z-score of the larger value being
\* 4 / sqrt(5) < 2.0; on five or more equal values followed by one larger
\* value it is exactly the index of the larger value; on equal values it is
\* empty.
C18_OutlierFlagged ==
    AnalyzerCalled("anomalies") =>
        /\ \A k \in 1..4 :
              EqualThenLarger(loc[Reader].values, k) =>
                 loc[Reader].result = << >>
        /\ \A k \in 5..MaxAnomalySeries :
              EqualThenLarger(loc[Reader].values, k) =>
                 loc[Reader].result = << k >>
        /\ AllEqual(loc[Reader].values) => loc[Reader].result = << >>

\* C18 witness: detect_anomalies([10, 10, 10, 10, 100]) has returned [].
C18_Witness ==
    /\ AnalyzerCalled("anomalies")
    /\ loc[Reader].values = << 10, 10, 10, 10, 100 >>
    /\ loc[Reader].result = << >>

IsProgression(r) ==
    \A i \in 2..(Len(r) - 1) : r[i + 1] - r[i] = r[2] - r[1]

\* The verdict of detect_trend on v is r, where the quotient |slope / mean|
\* exists and is not the threshold 0.1 exactly: 'stable' below it, above it
\* the sign of the slope.
TrendByRate(v, r) ==
    LET rate == 2 * Abs(SlopeNum(v)) * 10
        bar == SlopeDen(v) * Abs(Sum(v))
    IN  /\ Len(v) < 2 => r = "stable"
        /\ (Len(v) >= 2 /\ AllEqual(v)) => r = "stable"
        /\ (Len(v) >= 2 /\ Sum(v) # 0 /\ rate < bar) => r = "stable"
        /\ (Len(v) >= 2 /\ Sum(v) # 0 /\ rate > bar) =>
              r = (IF SlopeNum(v) > 0 THEN "increasing" ELSE "decreasing")
        /\ v = << 1, 2, 3, 4, 5 >> => r = "increasing"
        /\ v = << 5, 5, 5, 5, 5 >> => r = "stable"
        /\ v = << 5, 4, 3, 2, 1 >> => r = "decreasing"

\* C19 as stated: detect_trend with threshold 0.1 returns 'stable' for fewer
\* than 2 values and where |slope / mean| is below the threshold (so for
\* every constant sequence), and otherwise 'increasing' when the slope is
\* positive and 'decreasing' when it is not; a sequence of mean 0 with a
\* slope is not below the threshold.
C19_TrendBySlope ==
    AnalyzerCalled("trend") =>
        /\ TrendByRate(loc[Reader].values, loc[Reader].result)
        /\ (Sum(loc[Reader].values) = 0 /\ SlopeNum(loc[Reader].values) # 0)
              => loc[Reader].result =
                    (IF SlopeNum(loc[Reader].values) > 0 THEN "increasing"
                     ELSE "decreasing")

\* C19, amended: a sequence whose mean is 0 is 'stable', whatever its
\* slope.
C19_TrendBySlopeOrZeroMean ==
    AnalyzerCalled("trend") =>
        /\ TrendByRate(loc[Reader].values, loc[Reader].result)
        /\ Sum(loc[Reader].values) = 0 => loc[Reader].result = "stable"

\* C19 witness: detect_trend([-1, 0, 1]) has returned 'stable'.
C19_Witness ==
    /\ AnalyzerCalled("trend")
    /\ loc[Reader].values = << 0 - 1, 0, 1 >>
    /\ loc[Reader].result = "stable"

\* The series read by predict_next_value is an arithmetic progression.
Progression ==
    /\ Len(loc[Reader].values) >= 2
    /\ IsProgression(Recent(loc[Reader].values))

NextTerm ==
    LET r == Recent(loc[Reader].values)
    IN  r[Len(r)] + (r[2] - r[1])

\* C20 as stated: for at least 2 values of which the last 10 are an
\* arithmetic progression of step d, predict_next_value returns last + d
\* ([1,2,3,4,5] gives 6.0); for fewer than 2 values it returns None.
C20_PredictsNextTerm ==
    AnalyzerCalled("predict") =>
        /\ Len(loc[Reader].values) < 2 => loc[Reader].result = Nothing
        /\ Progression => loc[Reader].result = Some(NextTerm)

\* C20, amended: it returns last + d rounded to 2 decimal places, which is
\* last + d where that is a multiple of 0.01.
C20_PredictsRoundedNextTerm ==
    AnalyzerCalled("predict") =>
        /\ Len(loc[Reader].values) < 2 => loc[Reader].result = Nothing
        /\ Progression =>
              /\ loc[Reader].result.some
              /\ Abs(2 * (loc[Reader].result.value - NextTerm)) <= 10
              /\ loc[Reader].result.value % 10 = 0
              /\ NextTerm % 10 = 0 => loc[Reader].result.value = NextTerm
        /\ loc[Reader].values = << 1000, 2000, 3000, 4000, 5000 >> =>
              loc[Reader].result = Some(6000)

\* C20 witness: of eleven values the last ten are 1.0, 2.0, ..., 10.0 and
\* the first is not 0.0; the prediction is 11.0.
C20_Witness ==
    /\ AnalyzerCalled("predict")
    /\ Len(loc[Reader].values) = RecentValues + 1
    /\ ~IsProgression(loc[Reader].values)
    /\ Progression
    /\ loc[Reader].result = Some(11000)

\* The k-th smallest of the values v: fewer than k of them are below it and
\* at least k are not above it.
Kth(v, k) ==
    CHOOSE x \in {v[i] : i \in 1..Len(v)} :
        /\ Cardinality({i \in 1..Len(v) : FLess(v[i], x)}) < k
        /\ Cardinality({i \in 1..Len(v) : FLeq(v[i], x)}) >= k

\* (a + b) / 2 in floats.
MeanOfTwo(a, b) == LET t == FAdd(a, b) IN Fl(t.num, 2 * t.den)

\* C21: calculate_percentiles returns as 'median' the middle element of the
\* sorted values when their number is odd and the mean of the two middle
\* elements when it is even (2.5 for [1,2,3,4], 3 for [1,2,3,4,5]), whatever
\* the order of the input; on empty input it returns an empty result.
C21_Median ==
    AnalyzerCalled("percentiles") =>
        LET v == loc[Reader].values
            r == loc[Reader].result
            n == Len(v)
        IN  /\ pc[Reader] = "an_done"
            /\ n = 0 => DOMAIN r = {}
            /\ (n > 0 /\ n % 2 = 1) => r["median"] = Kth(v, n \div 2 + 1)
            /\ (n > 0 /\ n % 2 = 0) =>
                  r["median"] = MeanOfTwo(Kth(v, n \div 2),
                                          Kth(v, n \div 2 + 1))
            /\ {v[i] : i \in 1..n} = {Float(k) : k \in 1..4} /\ n = 4 =>
                  r["median"] = Frac(5, 2)
            /\ {v[i] : i \in 1..n} = {Float(k) : k \in 1..5} /\ n = 5 =>
                  r["median"] = Frac(3, 1)

\* C21 witness: the median of [4, 2, 1, 3] is 2.5.
C21_Witness ==
    /\ AnalyzerCalled("percentiles")
    /\ loc[Reader].values = Floats(<< 4, 2, 1, 3 >>)
    /\ loc[Reader].result["median"] = Frac(5, 2)

\* The percentile the interpolation gives for the sorted values s (counted
\* from 0 as s[0] .. s[n-1]): index = (n-1) * p / 100, lower = floor(index),
\* weight = index - lower, every operation a float operation.
Interpolated(v, p) ==
    LET n == Len(v)
        At(k) == Kth(v, k + 1)
        index == Fl((n - 1) * p, 100)
        lower == CHOOSE k \in 0..n :
                    FLeq(Float(k), index) /\ FLess(index, Float(k + 1))
        weight == FSub(index, Float(lower))
    IN  IF lower + 1 > n - 1 THEN At(lower)
        ELSE FAdd(FMul(At(lower), FSub(Float(1), weight)),
                  FMul(At(lower + 1), weight))

\* C25: for every non-empty sequence of n values and every p in {25, 75, 90,
\* 95, 99}, the percentile is value[lower] * (1 - weight) + value[lower+1] *
\* weight of the sorted values, and value[lower] when lower + 1 is out of
\* range; for n = 1 every percentile is the single value.
C25_Interpolated ==
    (AnalyzerCalled("percentiles") /\ loc[Reader].values # << >>) =>
        LET v == loc[Reader].values
            r == loc[Reader].result
        IN  /\ \A k \in PercentileKeys : r[k] = Interpolated(v, PercentOf(k))
            /\ Len(v) = 1 => \A k \in PercentileKeys : r[k] = v[1]
            /\ v = Floats(<< 1, 2, 3, 4 >>) =>
                  r["p25"] = Frac(7, 4) /\ r["p75"] = Frac(13, 4)

\* C25 witness: of [2, 1, 4, 3] the 75th percentile lies a quarter of the
\* way from 3 to 4.
C25_Witness ==
    /\ AnalyzerCalled("percentiles")
    /\ loc[Reader].values = Floats(<< 2, 1, 4, 3 >>)
    /\ loc[Reader].result["p75"] = Frac(13, 4)

StatOrder ==
    << "min", "p25", "median", "p75", "p90", "p95", "p99", "max" >>

\* C29: for every non-empty input the block calculate_percentiles returns
\* is ordered: min <= p25 <= median <= p75 <= p90 <= p95 <= p99 <= max, and
\* min <= mean <= max.
C29_BlockOrdered ==
    (AnalyzerCalled("percentiles") /\ loc[Reader].values # << >>) =>
        LET r == loc[Reader].result
        IN  /\ \A i \in 1..(Len(StatOrder) - 1) :
                  FLeq(r[StatOrder[i]], r[StatOrder[i + 1]])
            /\ FLeq(r["min"], r["mean"])
            /\ FLeq(r["mean"], r["max"])

\* n * (values[i] - mean), i counted from 0, and the sum of the squares of
\* these over the sequence: n * n * (n - 1) times the sample variance.
Deviation(v, i) == Len(v) * v[i + 1] - Sum(v)
SquaredDeviations(v) ==
    Sum([j \in 1..Len(v) |-> Deviation(v, j - 1) * Deviation(v, j - 1)])

\* |values[i] - mean| / stdev > tn / td, for a sample standard deviation
\* that is not 0 and tn / td >= 0: the comparison of the squares.
ZScoreAbove(v, i, tn, td) ==
    Deviation(v, i) * Deviation(v, i) * (Len(v) - 1) * td * td
        > tn * tn * SquaredDeviations(v)

\* C24: for at least 3 values of non-zero sample standard deviation,
\* detect_anomalies returns exactly the indices i with
\* |values[i] - mean| / stdev > threshold, each once and in ascending order;
\* for fewer than 3 values or zero standard deviation it returns the empty
\* list.
C24_ExactlyTheOutliers ==
    AnalyzerCalled("anomalies") =>
        LET v == loc[Reader].values
            r == loc[Reader].result
            t == loc[Reader].std_threshold
        IN  /\ pc[Reader] = "an_done"
            /\ (Len(v) < 3 \/ SquaredDeviations(v) = 0) => r = << >>
            /\ (Len(v) >= 3 /\ SquaredDeviations(v) # 0) =>
                  /\ {r[k] : k \in 1..Len(r)} =
                        {i \in 0..(Len(v) - 1) :
                            ZScoreAbove(v, i, t.num, t.den)}
                  /\ \A k \in 1..(Len(r) - 1) : r[k] < r[k + 1]

\* C24 witness: of [100, 5, 5, 10, 100] with threshold 1 the first and the
\* last value are flagged, in this order.
C24_Witness ==
    /\ AnalyzerCalled("anomalies")
    /\ loc[Reader].values = << 100, 5, 5, 10, 100 >>
    /\ loc[Reader].std_threshold = Frac(1, 1)
    /\ loc[Reader].result = << 0, 4 >>

\* C30: with the default threshold 2.0 detect_anomalies returns the empty
\* list for every sequence of 5 or fewer values: no z-score of n values is
\* above (n - 1) / sqrt(n), which is above 2.0 only from n = 6 on.
C30_FiveValuesNeverFlagged ==
    (AnalyzerCalled("anomalies") /\ pc[Reader] = "an_done") =>
        LET v == loc[Reader].values
            n == Len(v)
        IN  /\ n <= 5 => loc[Reader].result = << >>
            /\ \A i \in 0..(n - 1) :
                  Deviation(v, i) * Deviation(v, i) * n
                     <= (n - 1) * SquaredDeviations(v)
            /\ \A i \in 0..(n - 1) :
                  ZScoreAbove(v, i, 2, 1) => n >= 6

\* C30 witness: [5, 100, 5, 5, 5], whose second value has the largest
\* z-score five values can have, 4 / sqrt(5), is not flagged.
C30_Witness ==
    /\ AnalyzerCalled("anomalies")
    /\ loc[Reader].values = << 5, 100, 5, 5, 5 >>
    /\ Deviation(loc[Reader].values, 1) * Deviation(loc[Reader].values, 1) * 5
          = 4 * SquaredDeviations(loc[Reader].values)
    /\ loc[Reader].result = << >>

\* The records whose metric_data is a mapping that holds a number (an int or
\* a float, not a bool or a str) under the key, in record order.
UsableRecords(records, key) ==
    SelectSeq(records,
              LAMBDA rec :
                 /\ "metric_data" \in DOMAIN rec
                 /\ IsDict(rec.metric_data)
                 /\ key \in DOMAIN rec.metric_data
                 /\ rec.metric_data[key].kind = "int")

NumbersOf(records, key) ==
    [i \in 1..Len(UsableRecords(records, key)) |->
        UsableRecords(records, key)[i].metric_data[key].items[1]]

\* C22: analyze_metric_history(records, key) uses exactly the records whose
\* metric_data is a mapping that contains key with a numeric value, in
\* record order, and skips all others: data_points is the number of such
\* records, and when there is none the result is the no-data result, a
\* mapping with only an 'error' entry.
C22_UsesNumericRecords ==
    AnalyzerCalled("history") =>
        LET values == NumbersOf(loc[Reader].metric_data,
                                loc[Reader].metric_key)
            r == loc[Reader].result
        IN  /\ pc[Reader] = "an_done"
            /\ values = << >> => DOMAIN r = {"error"}
            /\ values # << >> =>
                  /\ "error" \notin DOMAIN r
                  /\ r.data_points = Len(values)
                  /\ Len(values) < 5 => r.moving_avg_5 = values
                  /\ r.statistics = PercentilesOf(Floats(values))

\* The j-th of m entries is the mean of the window of 5 values that ends
\* m - j values before the end of the sequence.
LastWindowMeans(values, entries) ==
    LET n == Len(values)
        m == Len(entries)
    IN  \A j \in 1..m :
           entries[j].num * 5 =
              Sum(SubSeq(values, n - 4 - m + j, n - m + j)) * entries[j].den

\* C26: in the result of analyze_metric_history over n extracted values,
\* moving_avg_5 is the raw value sequence when n < 5 and otherwise the last
\* 5 entries of the window-5 moving average (all n - 4 of them when fewer
\* than 5 exist); it has at most 5 entries, and anomalies_count is never
\* greater than data_points.
C26_LastFiveAverages ==
    (AnalyzerCalled("history") /\ "error" \notin DOMAIN loc[Reader].result)
    =>  LET values == ExtractValues(loc[Reader].metric_data,
                                    loc[Reader].metric_key)
            n == Len(values)
            r == loc[Reader].result
        IN  /\ n < 5 => r.moving_avg_5 = values
            /\ n >= 5 =>
                  /\ Len(r.moving_avg_5) = (IF n - 4 < 5 THEN n - 4 ELSE 5)
                  /\ LastWindowMeans(values, r.moving_avg_5)
            /\ Len(r.moving_avg_5) <= 5
            /\ r.anomalies_count <= r.data_points
            /\ r.data_points = n

\* C26 witness: of the 11 readings 1..11 the seven window means are 3..9,
\* and the result holds the last five of them, 5..9.
C26_Witness ==
    /\ AnalyzerCalled("history")
    /\ "error" \notin DOMAIN loc[Reader].result
    /\ loc[Reader].result.data_points = RecentValues + 1
    /\ loc[Reader].result.moving_avg_5 =
          [j \in 1..5 |-> Frac(5 * (j + 4), 5)]

\* C23: no Analyzer function raises on malformed or degenerate input (empty
\* sequences, a window of 0 or less, ...): each call returns a result.
C23_AnalyzerNeverRaises ==
    \A op \in {"moving_average", "trend", "anomalies", "percentiles",
               "predict"} :
        AnalyzerCalled(op) => pc[Reader] = "an_done"

\* C28: of any two records in the store, the one with the smaller id has a
\* timestamp that is not later than the timestamp of the other, also when
\* the inserts come from writers whose calls interleave.
C28_TimestampsFollowIds ==
    \A r1, r2 \in disk :
        r1.id < r2.id => TextLeq(r1.timestamp, r2.timestamp)

\* The file at METRICS_FILE is absent or one whole snapshot.
FileWhole == shared.metrics = NoFile \/ Complete(TextAt("metrics"))

\* What get_metrics answers is a whole snapshot or the 404 of "no file yet",
\* never a part of a snapshot and never the failure to parse one.
AnswerWhole ==
    /\ api.response.status \in {0, 200, 404}
    /\ api.response.status = 200 => Complete(api.response.data)

\* A failed iteration has left the file it found, a whole one or none.
FailureKeepsFile ==
    loop.pc = "failed" =>
        /\ loop.before = << >> => shared.metrics = NoFile
        /\ loop.before # << >> =>
              /\ shared.metrics # NoFile
              /\ TextAt("metrics") = loop.before
              /\ Complete(loop.before)

\* After a failure the loop sleeps and starts its next iteration.
LoopGoesOn ==
    /\ (loop.pc = "failed" /\ loop' # loop) => loop'.pc = "sleep"
    /\ (loop.pc = "sleep" /\ loop' # loop) => loop'.pc = "collect"

\* C27: the metrics file is replaced atomically: at every point of any
\* interleaving of the writer loop with get_metrics the file at METRICS_FILE
\* is absent or a complete snapshot of one collection, get_metrics never
\* returns a partially written snapshot, and an iteration of the writer
\* that fails leaves the previous complete file in place and the loop goes
\* on to the next iteration.
C27_AtomicReplace ==
    /\ [](FileWhole /\ AnswerWhole /\ FailureKeepsFile)
    /\ [][LoopGoesOn]_vars

\* C27 witness: get_metrics has answered with the whole first snapshot from
\* the file it had opened before the second snapshot replaced it, and the
\* writer's third iteration has failed in the middle of json.dump, leaving
\* a part of a snapshot in the temporary file and the second in place.
C27_Witness ==
    /\ api.response.status = 200
    /\ api.response.data = << 1, 1 >>
    /\ loop.pc = "failed"
    /\ shared.metrics # NoFile
    /\ TextAt("metrics") = << 2, 2 >>
    /\ shared.tmp # NoFile
    /\ TextAt("tmp") = << 3 >>

====
